---- MODULE Spec2Model ----
(***************************************************************************)
(* Model of csv_analyzer's process-isolated backend: the request/response  *)
(* protocol of core/ipc.py (Message, Response, BackendWorker, IPCClient).  *)
(*                                                                         *)
(* Specifications, all over the same variables:                            *)
(*   WorkerSpec    the worker loop of one backend process, fed request     *)
(*                 dicts of every kind on its inbound channel;             *)
(*   Spec          an IPCClient from construction: the main thread starts  *)
(*                 and stops it while another thread calls send_message;   *)
(*   CallSpec      a started IPCClient called from two threads at once;    *)
(*   FairCallSpec  CallSpec with the scheduling of the caller threads;     *)
(*   StopSpec      a started IPCClient stopped by the main thread while    *)
(*                 another thread calls send_message;                      *)
(*   FairStopSpec  StopSpec with the scheduling of the stopping thread;    *)
(*   EngineSpec    the DataEngine and DataAnalyzer of a worker, called     *)
(*                 method by method;                                       *)
(*   CacheSpec     the same with two files loaded under one name, the      *)
(*                 view operations and clear_cache;                        *)
(*   StatsSpec     the DataAnalyzer over one loaded table, for every       *)
(*                 content of its numeric column;                          *)
(*   ConnSpec      two threads inside the DataEngine and DataAnalyzer      *)
(*                 methods of one process, statement by statement.         *)
(***************************************************************************)
EXTENDS Integers, Sequences, FiniteSets, TLC

(* ------------------------------------------------------------------ *)
(* Bounds of the model                                                *)
(* ------------------------------------------------------------------ *)

\* number of raw requests the environment feeds to the worker (WorkerSpec)
MaxFeed == 2
\* number of request ids one client generates (Spec)
MaxReq == 2
\* number of start() calls that spawn a worker (Spec)
MaxStarts == 2
\* number of tables the engine connection holds at a time (EngineSpec)
MaxTables == 2
\* number of rows a table grows to by INSERT statements (EngineSpec)
MaxRows == 2
\* number of rows of the analyzed table (StatsSpec)
MaxCells == 3
\* largest value a cell of the numeric column holds (StatsSpec)
MaxValue == 2

(* ------------------------------------------------------------------ *)
(* Protocol: MessageType, Message, Response                           *)
(* ------------------------------------------------------------------ *)

\* Python's None
None == "None"

\* the values of the MessageType enumeration
MessageTypeValues ==
    { "load_csv", "drop_table", "get_tables", "get_table_info",
      "execute_query", "get_table_data",
      "save_view", "get_views", "delete_view",
      "analyze_table", "analyze_column", "get_missing_report",
      "get_numeric_summary", "get_column_distribution",
      "export_csv",
      "shutdown", "response", "error" }

\* the kinds for which BackendWorker defines a method _handle_<kind>
HandlerKinds ==
    { "load_csv", "drop_table", "get_tables", "get_table_info",
      "execute_query", "get_table_data",
      "save_view", "get_views", "delete_view",
      "analyze_table", "analyze_column", "get_missing_report",
      "get_numeric_summary", "get_column_distribution",
      "export_csv", "shutdown" }

\* a kind string that is not a value of MessageType
BogusKind == "bogus"

\* f"req_{n}"
ReqId(n) == <<"req", n>>

\* a payload key that is absent from the payload dict
NoKey == "<absent>"

PayloadKeys ==
    { "file_path", "table_name", "column_name", "sql", "view_name",
      "sql_or_table", "output_path" }

\* {} : no key present
EmptyPayload == [k \in PayloadKeys |-> NoKey]

\* every key present, naming the file data.csv and what a load of it creates
GoodPayload ==
    [k \in PayloadKeys |->
        CASE k = "file_path" -> "data.csv"
          [] k = "table_name" -> "data"
          [] k = "column_name" -> "x"
          [] k = "sql" -> "SELECT"
          [] k = "view_name" -> "v"
          [] k = "sql_or_table" -> "data"
          [] OTHER -> "out.csv"]

\* every key present, naming a file, a table and a column that do not exist
BadPayload ==
    [k \in PayloadKeys |->
        CASE k = "file_path" -> "nofile.csv"
          [] k = "table_name" -> "ghost"
          [] k = "column_name" -> "nocol"
          [] k = "sql" -> "SELECT"
          [] k = "view_name" -> "v"
          [] k = "sql_or_table" -> "ghost"
          [] OTHER -> "out.csv"]

\* Message.to_dict: the dict put on the inbound channel
MessageDict(id, kind, payload) == [id |-> id, type |-> kind, payload |-> payload]

\* Response(...).to_dict()
ResponseDict(id, success, data, error) ==
    [request_id |-> id, success |-> success, data |-> data, error |-> error]

(* ------------------------------------------------------------------ *)
(* Channels (multiprocessing.Queue): FIFO                             *)
(* ------------------------------------------------------------------ *)

QueuePut(q, x) == Append(q, x)

QueueGet_lifo(q) == [item |-> q[Len(q)], rest |-> SubSeq(q, 1, Len(q) - 1)]

\* Queue.get on a non-empty queue: the oldest item
QueueGet(q) == [item |-> Head(q), rest |-> Tail(q)]

(* ------------------------------------------------------------------ *)
(* Engine Adapter and Statistics Engine state inside one worker       *)
(* ------------------------------------------------------------------ *)

\* the files that exist on disk
Files == {"data.csv", "other.csv"}

\* a NULL cell of the column x; its other cells are positive integers
Null == 0

\* the rows read_csv_auto ingests from a file, each row written as its cell
\* of the column x: two rows in data.csv, one in other.csv; the column s
\* holds the text "a" in every row of every file
FileRows(path) == IF path = "other.csv" THEN <<1>> ELSE <<1, 2>>

\* what DESCRIBE reports for a table ingested from one of the files
Columns == <<[name |-> "x", dtype |-> "BIGINT"], [name |-> "s", dtype |-> "VARCHAR"]>>

\* a table name with its numeric suffixes split off: the string "data" is
\* <<"data">> and the string "data_1" is <<"data", 1>>
ParseName(s) ==
    CASE s = "data_1" -> <<"data", 1>>
      [] s = "table_1" -> <<"table", 1>>
      [] OTHER -> <<s>>

\* f"{original_name}_{counter}" (counter 0: original_name itself)
TableName(base, k) == IF k = 0 THEN base ELSE Append(base, k)

\* DataEngine._sanitize_table_name(os.path.basename(path)): the stem of the
\* file name; the file names of the model hold no character to replace
SanitizeTableName(path) ==
    CASE path = "data.csv" -> "data"
      [] path = "other.csv" -> "other"
      [] path = "nofile.csv" -> "nofile"
      [] OTHER -> "table_1"

\* the names of the columns DESCRIBE reports
ColumnsOf == {Columns[i].name : i \in 1..Len(Columns)}

UniqueFrom_skipOne(base, counter, tables) == TableName(base, counter + 1)

RECURSIVE UniqueFrom(_, _, _)
\* the while loop of load_csv: counter runs from 1 until the name is free
UniqueFrom(base, counter, tables) ==
    IF TableName(base, counter) \in tables
    THEN UniqueFrom(base, counter + 1, tables)
    ELSE TableName(base, counter)

\* load_csv's "ensure the table name is unique" against the registry's names
UniqueTableName(base, tables) ==
    IF TableName(base, 0) \in tables THEN UniqueFrom(base, 1, tables)
    ELSE TableName(base, 0)

\* a dict with no key
EmptyMap == [n \in {} |-> n]

\* d[k] = v
MapPut(d, k, v) == [n \in DOMAIN d \cup {k} |-> IF n = k THEN v ELSE d[n]]

\* del d[k] when k is a key
MapDel(d, k) == [n \in DOMAIN d \ {k} |-> d[n]]

\* DataEngine.__init__ and DataAnalyzer.__init__: the registry _tables, the
\* tables of the DuckDB connection (name -> rows), _views, the analyzer's
\* _cache, the connection (FALSE once closed) and the engine's _lock
NewEngine ==
    [tables |-> EmptyMap, catalog |-> EmptyMap, views |-> {},
     cache |-> EmptyMap, conn |-> TRUE, lock |-> FALSE]

\* str(KeyError(k))
KeyErrorText(k) ==
    CASE k = "file_path" -> "'file_path'"
      [] k = "table_name" -> "'table_name'"
      [] k = "column_name" -> "'column_name'"
      [] k = "sql" -> "'sql'"
      [] k = "view_name" -> "'view_name'"
      [] k = "sql_or_table" -> "'sql_or_table'"
      [] OTHER -> "'output_path'"

\* str(FileNotFoundError(...)) of load_csv: the message "file does not exist: <path>"
FileNotFoundText == "file does not exist: nofile.csv"

\* str(ValueError(...)) of the analyzer: "table does not exist: <name>"
NoTableText == "table does not exist"

\* str(ValueError(...)) of analyze_column: "column does not exist: <name>"
NoColumnText == "column does not exist: nocol"

\* str(AttributeError) of self._conn.execute after close() set _conn to None
NoConnText == "'NoneType' object has no attribute 'execute'"

\* texts of the errors the DuckDB connection raises
CatalogMissingText == "Catalog Error: Table does not exist"
CatalogExistsText == "Catalog Error: Table already exists"
ParserErrorText == "Parser Error: syntax error"
IngestErrorText == "Invalid Input Error: CSV could not be read"

\* str(FileNotFoundError) of os.path.getsize on a file removed during the load
FileGoneText == "No such file or directory: data.csv"

\* the keys a handler reads with payload[key], in evaluation order
RequiredKeys(kind) ==
    CASE kind = "load_csv" -> <<"file_path">>
      [] kind \in {"drop_table", "get_table_info", "get_table_data",
                   "analyze_table", "get_missing_report",
                   "get_numeric_summary"} -> <<"table_name">>
      [] kind = "execute_query" -> <<"sql">>
      [] kind = "save_view" -> <<"view_name", "sql">>
      [] kind = "delete_view" -> <<"view_name">>
      [] kind \in {"analyze_column", "get_column_distribution"} ->
            <<"table_name", "column_name">>
      [] kind = "export_csv" -> <<"sql_or_table", "output_path">>
      [] OTHER -> <<>>

\* the first key payload[key] fails on, or NoKey when all are present
FirstMissing(kind, p) ==
    LET ks == RequiredKeys(kind)
        miss == {i \in 1..Len(ks) : p[ks[i]] = NoKey}
    IN IF miss = {} THEN NoKey
       ELSE ks[CHOOSE i \in miss : \A j \in miss : i <= j]

\* outcome of a call: it returned value, or raised an exception with text exc
Returned(value, eng, running) ==
    [raised |-> FALSE, exc |-> None, value |-> value, eng |-> eng, running |-> running]

Raised(exc, eng) ==
    [raised |-> TRUE, exc |-> exc, value |-> None, eng |-> eng, running |-> TRUE]

\* TableInfo(name, file_path, row_count, columns, ...): row_count is the
\* COUNT(*) and columns the DESCRIBE taken by load_csv
TableInfo(name, file_path, row_count, columns) ==
    [name |-> name, file_path |-> file_path, row_count |-> row_count,
     columns |-> columns]

\* what can go wrong inside a load of an existing file: nothing; the CREATE
\* TABLE ... read_csv_auto fails on both attempts; a step after the ingestion
\* fails (os.path.getsize on a file removed meanwhile)
LoadFaults == {"none", "ingest", "late"}

\* DataEngine.load_csv(file_path, table_name); table_name NoKey stands for
\* None. A CREATE TABLE that fails creates nothing; a failure after it leaves
\* the created table in the connection, since nothing drops it
LoadCsv(file_path, table_name, fault, eng) ==
    IF file_path \notin Files THEN Raised(FileNotFoundText, eng)
    ELSE LET base == ParseName(IF table_name = NoKey
                               THEN SanitizeTableName(file_path)
                               ELSE table_name)
             name == UniqueTableName(base, DOMAIN eng.tables)
             rows == FileRows(file_path)
             created == [eng EXCEPT !.catalog = MapPut(@, name, rows)]
             info == TableInfo(name, file_path, Len(rows), Columns)
         IN IF ~eng.conn THEN Raised(NoConnText, eng)
            ELSE IF name \in DOMAIN eng.catalog THEN Raised(CatalogExistsText, eng)
            ELSE IF fault = "ingest" THEN Raised(IngestErrorText, eng)
            ELSE IF fault = "late" THEN Raised(FileGoneText, created)
            ELSE Returned(info, [created EXCEPT !.tables = MapPut(@, name, info)], TRUE)

DropTable_dropCache(table_name, eng) ==
    IF ~eng.conn THEN Returned("False", eng, TRUE)
    ELSE Returned("True",
            [eng EXCEPT !.catalog = MapDel(@, table_name),
                        !.tables = MapDel(@, table_name),
                        !.cache = MapDel(@, table_name)], TRUE)

DropTable_registryOnly(table_name, eng) ==
    Returned("True", [eng EXCEPT !.tables = MapDel(@, table_name)], TRUE)

\* DataEngine.drop_table(table_name): DROP TABLE IF EXISTS, then the registry
\* entry; an engine failure is printed and False returned
DropTable(table_name, eng) ==
    IF ~eng.conn THEN Returned("False", eng, TRUE)
    ELSE Returned("True",
            [eng EXCEPT !.catalog = MapDel(@, table_name),
                        !.tables = MapDel(@, table_name)], TRUE)

\* DataEngine.close()
Close(eng) == [eng EXCEPT !.conn = FALSE]

\* DataEngine.save_view(view_name, sql): CREATE OR REPLACE VIEW, which binds
\* the statement, then the view map entry; an engine failure is printed and
\* False returned. The view names of the model are no table names
SaveView(view_name, sql, eng) ==
    IF ~eng.conn \/ sql.verb # "SELECT" \/ sql.table \notin DOMAIN eng.catalog
    THEN Returned("False", eng, TRUE)
    ELSE Returned("True", [eng EXCEPT !.views = @ \cup {view_name}], TRUE)

DeleteView_strict(view_name, eng) ==
    IF ~eng.conn \/ view_name \notin eng.views THEN Returned("False", eng, TRUE)
    ELSE Returned("True", [eng EXCEPT !.views = @ \ {view_name}], TRUE)

\* DataEngine.delete_view(view_name): DROP VIEW IF EXISTS, then the view map
\* entry; an engine failure is printed and False returned
DeleteView(view_name, eng) ==
    IF ~eng.conn THEN Returned("False", eng, TRUE)
    ELSE Returned("True", [eng EXCEPT !.views = @ \ {view_name}], TRUE)

\* a SQL statement on one table: SELECT * FROM t; a SELECT that ends with its
\* own LIMIT clause; INSERT INTO t; DELETE of t's last row; CREATE TABLE t AS
\* SELECT 1 AS x, 'a' AS s; DROP TABLE t; a text that does not parse
SqlVerbs == {"SELECT", "SELECT_LIMIT", "INSERT", "DELETE", "CREATE", "DROP", "GARBAGE"}

Sql(verb, table) == [verb |-> verb, table |-> table]

\* QueryResult(columns, data, row_count, total_rows, execution_time, error);
\* the execution time is left out
QueryResult(columns, data, row_count, total_rows, error) ==
    [columns |-> columns, data |-> data, row_count |-> row_count,
     total_rows |-> total_rows, error |-> error]

FailedQuery_keepColumns(text) == QueryResult(<<"x">>, <<>>, 0, 0, text)

\* the QueryResult of the except branch
FailedQuery(text) == QueryResult(<<>>, <<>>, 0, 0, text)

Min(a, b) == IF a <= b THEN a ELSE b

Paginate_offByOne(rows, limit, offset) ==
    SubSeq(rows, offset + 1, Min(Len(rows), offset + limit + 1))

\* the rows of f"{sql} LIMIT {limit} OFFSET {offset}" over a result of rows
Paginate(rows, limit, offset) ==
    SubSeq(rows, offset + 1, Min(Len(rows), offset + limit))

\* the body of execute_query, run with the engine lock held
ExecuteLocked(sql, limit, offset, eng) ==
    LET t == sql.table
        has == t \in DOMAIN eng.catalog
        done(e) == Returned(QueryResult(<<>>, <<>>, 0, 0, None), e, TRUE)
        failed(text) == Returned(FailedQuery(text), eng, TRUE)
    IN IF ~eng.conn THEN failed(NoConnText)
       ELSE IF sql.verb = "GARBAGE" THEN failed(ParserErrorText)
       ELSE IF sql.verb = "CREATE"
            THEN IF has THEN failed(CatalogExistsText)
                 ELSE done([eng EXCEPT !.catalog = MapPut(@, t, <<1>>)])
       ELSE IF ~has THEN failed(CatalogMissingText)
       ELSE CASE sql.verb = "SELECT" ->
                    LET data == Paginate(eng.catalog[t], limit, offset)
                    IN Returned(QueryResult(<<"x">>, data, Len(data),
                                            Len(eng.catalog[t]), None), eng, TRUE)
              [] sql.verb = "SELECT_LIMIT" -> failed(ParserErrorText)
              [] sql.verb = "INSERT" ->
                    done([eng EXCEPT !.catalog[t] = Append(@, Len(@) + 1)])
              [] sql.verb = "DELETE" ->
                    done([eng EXCEPT !.catalog[t] = SubSeq(@, 1, Len(@) - 1)])
              [] OTHER -> done([eng EXCEPT !.catalog = MapDel(@, t)])

ExecuteQuery_syncRegistry(sql, limit, offset, eng) ==
    LET out == ExecuteLocked(sql, limit, offset, [eng EXCEPT !.lock = TRUE])
    IN [out EXCEPT !.eng.lock = FALSE,
                   !.eng.tables = IF sql.verb = "DROP" /\ out.value.error = None
                                  THEN MapDel(@, sql.table) ELSE @]

ExecuteQuery_raises(sql, limit, offset, eng) ==
    LET out == ExecuteLocked(sql, limit, offset, [eng EXCEPT !.lock = TRUE])
    IN IF out.value.error # None THEN Raised(out.value.error, out.eng)
       ELSE [out EXCEPT !.eng.lock = FALSE]

\* DataEngine.execute_query(sql, limit, offset): "with self._lock" around the
\* body, whose except branch turns every failure into a QueryResult
ExecuteQuery(sql, limit, offset, eng) ==
    LET out == ExecuteLocked(sql, limit, offset, [eng EXCEPT !.lock = TRUE])
    IN [out EXCEPT !.eng.lock = FALSE]

\* DataEngine.get_table_data(table_name, limit, offset)
GetTableData(table_name, limit, offset, eng) ==
    ExecuteQuery(Sql("SELECT", table_name), limit, offset, eng)

\* DataEngine.get_tables(): the names of the registry's entries
GetTables(eng) == DOMAIN eng.tables

\* DataEngine.export_to_csv(sql_or_table, output_path, is_sql): COPY (query) TO
\* the file; the engine and the registry are not written
ExportToCsv(sql, eng) ==
    IF ~eng.conn \/ sql.verb # "SELECT" \/ sql.table \notin DOMAIN eng.catalog
    THEN Returned("False", eng, TRUE)
    ELSE Returned("True", eng, TRUE)

\* Optional values: None is <<>>, a value v is <<v>>
Absent == <<>>
Some(v) == <<v>>

\* DataAnalyzer._categorize_dtype on the type names DESCRIBE reports
CategorizeDtype(dtype) ==
    CASE dtype \in {"BIGINT", "INTEGER"} -> "integer"
      [] dtype = "DOUBLE" -> "float"
      [] dtype = "VARCHAR" -> "string"
      [] OTHER -> "other"

\* DataAnalyzer._is_numeric_dtype
IsNumericDtype(dtype) == CategorizeDtype(dtype) \in {"integer", "float"}

\* the cells of a column over the rows of a table, a NULL as Absent
CellsOf(rows, col) ==
    [i \in 1..Len(rows) |->
        IF col = "x" THEN (IF rows[i] = Null THEN Absent ELSE Some(rows[i]))
        ELSE Some("a")]

\* WHERE col IS NOT NULL
NonNullCells(cells) == SelectSeq(cells, LAMBDA c : c # Absent)

\* the values COUNT(DISTINCT col) counts
DistinctValues(cells) == {cells[i][1] : i \in {j \in 1..Len(cells) : cells[j] # Absent}}

\* LENGTH(text)
TextLength(text) == IF text = "" THEN 0 ELSE 1

SetMin(S) == CHOOSE x \in S : \A y \in S : x <= y
SetMax(S) == CHOOSE x \in S : \A y \in S : x >= y

Percentage_fullWhenEmpty(part, total) ==
    IF total > 0 THEN (part * 20000 + total) \div (2 * total) ELSE 10000

\* round((part / total * 100) if total > 0 else 0, 2), in hundredths of a
\* percent
Percentage(part, total) ==
    IF total > 0 THEN (part * 20000 + total) \div (2 * total) ELSE 0

\* ColumnStats(name, dtype, total_count, null_count, null_percentage,
\* unique_count, unique_percentage) with every optional field None; of the
\* numeric aggregates the model keeps min, max and std, of the length aggregates
\* min_length and max_length
ColumnStats(name, dtype, total_count, non_null_count, unique_count) ==
    [name |-> name, dtype |-> dtype, total_count |-> total_count,
     null_count |-> total_count - non_null_count,
     null_percentage |-> Percentage(total_count - non_null_count, total_count),
     unique_count |-> unique_count,
     unique_percentage |-> Percentage(unique_count, total_count),
     min_value |-> Absent, max_value |-> Absent, std_value |-> Absent,
     min_length |-> Absent, max_length |-> Absent, top_values |-> Absent]

\* the statistic groups _analyze_column computes inside a try block each
StatGroups == {"numeric", "string", "top"}

\* the (column, group) pairs whose query can be made to fail
FaultPairs == {<<"x", "numeric">>, <<"x", "top">>, <<"s", "string">>, <<"s", "top">>}

NoFaults == {}

RECURSIVE SumOver(_, _)
\* the sum of f over the indices in S
SumOver(f, S) ==
    IF S = {} THEN 0
    ELSE LET i == CHOOSE j \in S : TRUE IN f[i] + SumOver(f, S \ {i})

\* STDDEV(col) over the non-null values, which the engine computes as the
\* sample standard deviation sqrt(SUM((v - mean)^2) / (n - 1)), NULL for
\* fewer than two values. The model keeps its square, as the fraction
\* num / den = (n * SUM(v^2) - SUM(v)^2) / (n * (n - 1))
StdDev(values) ==
    LET n == Len(values)
        sum == SumOver(values, 1..n)
        squares == SumOver([i \in 1..n |-> values[i] * values[i]], 1..n)
    IN IF n < 2 THEN Absent
       ELSE Some([num |-> n * squares - sum * sum, den |-> n * (n - 1)])

\* MIN, MAX and STDDEV over the non-null cells: NULL (None) when there is none
NumericStats(cs, cells) ==
    LET vals == DistinctValues(cells)
        values == [i \in 1..Len(NonNullCells(cells)) |-> NonNullCells(cells)[i][1]]
    IN IF vals = {} THEN cs
       ELSE [cs EXCEPT !.min_value = Some(SetMin(vals)), !.max_value = Some(SetMax(vals)),
                       !.std_value = StdDev(values)]

\* MIN(LENGTH) and MAX(LENGTH) over the non-null cells
StringStats(cs, cells) ==
    LET lens == {TextLength(v) : v \in DistinctValues(cells)}
    IN IF lens = {} THEN cs
       ELSE [cs EXCEPT !.min_length = Some(SetMin(lens)), !.max_length = Some(SetMax(lens))]

\* the value/count pairs of GROUP BY col over the non-null cells; the model's
\* columns hold fewer than ten distinct values, so LIMIT 10 cuts nothing
TopValues(cells) ==
    {[value |-> v, count |-> Cardinality({i \in 1..Len(cells) : cells[i] = Some(v)})] :
        v \in DistinctValues(cells)}

AnalyzeColumnStats_oneTry(rows, col, faults) ==
    LET cells == CellsOf(rows, col.name)
        base == ColumnStats(col.name, col.dtype, Len(cells), Len(NonNullCells(cells)),
                            Cardinality(DistinctValues(cells)))
        typed == IF IsNumericDtype(col.dtype) THEN NumericStats(base, cells)
                 ELSE IF CategorizeDtype(col.dtype) = "string" THEN StringStats(base, cells)
                 ELSE base
    IN IF \E g \in StatGroups : <<col.name, g>> \in faults THEN base
       ELSE [typed EXCEPT !.top_values = Some(TopValues(cells))]

\* DataAnalyzer._analyze_column over a table that exists, on an open
\* connection: the base counts, then the numeric or the string group, then the
\* top values; a group whose query fails (a pair of faults) is printed and
\* left out
AnalyzeColumnStats(rows, col, faults) ==
    LET cells == CellsOf(rows, col.name)
        base == ColumnStats(col.name, col.dtype, Len(cells), Len(NonNullCells(cells)),
                            Cardinality(DistinctValues(cells)))
        typed == IF IsNumericDtype(col.dtype)
                 THEN (IF <<col.name, "numeric">> \in faults THEN base
                       ELSE NumericStats(base, cells))
                 ELSE IF CategorizeDtype(col.dtype) = "string"
                 THEN (IF <<col.name, "string">> \in faults THEN base
                       ELSE StringStats(base, cells))
                 ELSE base
    IN IF <<col.name, "top">> \in faults THEN typed
       ELSE [typed EXCEPT !.top_values = Some(TopValues(cells))]

\* DataAnalyzer._estimate_memory_usage
EstimateMemoryUsage(table_name, eng) ==
    IF table_name \notin DOMAIN eng.tables THEN 0
    ELSE eng.tables[table_name].row_count * 100

\* TableStats: row_count and memory_usage come from the registry's TableInfo,
\* the columns' counts from queries over the table
TableStats(table_name, row_count, memory_usage, columns) ==
    [table_name |-> table_name, row_count |-> row_count,
     column_count |-> Len(columns), memory_usage |-> memory_usage,
     columns |-> columns,
     null_summary |-> [n \in {columns[i].name : i \in 1..Len(columns)} |->
                         LET i == CHOOSE j \in 1..Len(columns) : columns[j].name = n
                         IN columns[i].null_count]]

AnalyzeTable_lookupFirst(table_name, force_refresh, faults, eng) ==
    IF table_name \notin DOMAIN eng.tables THEN Raised(NoTableText, eng)
    ELSE IF ~force_refresh /\ table_name \in DOMAIN eng.cache
    THEN Returned(eng.cache[table_name], eng, TRUE)
    ELSE IF ~eng.conn THEN Raised(NoConnText, eng)
    ELSE IF table_name \notin DOMAIN eng.catalog THEN Raised(CatalogMissingText, eng)
    ELSE LET info == eng.tables[table_name]
             stats == TableStats(table_name, info.row_count, info.row_count * 100,
                        [i \in 1..Len(info.columns) |->
                            AnalyzeColumnStats(eng.catalog[table_name], info.columns[i], faults)])
         IN Returned(stats, [eng EXCEPT !.cache = MapPut(@, table_name, stats)], TRUE)

AnalyzeTable_cacheOnly(table_name, force_refresh, faults, eng) ==
    IF table_name \in DOMAIN eng.cache
    THEN Returned(eng.cache[table_name], eng, TRUE)
    ELSE Returned(TableStats(table_name, 0, 0, <<>>), eng, TRUE)

AnalyzeTable_evictFirst(table_name, force_refresh, faults, eng) ==
    LET evicted == [eng EXCEPT !.cache = MapDel(@, table_name)]
    IN IF ~force_refresh /\ table_name \in DOMAIN eng.cache
       THEN Returned(eng.cache[table_name], eng, TRUE)
       ELSE IF table_name \notin DOMAIN eng.tables THEN Raised(NoTableText, evicted)
       ELSE IF ~eng.conn THEN Raised(NoConnText, evicted)
       ELSE IF table_name \notin DOMAIN eng.catalog THEN Raised(CatalogMissingText, evicted)
       ELSE LET info == eng.tables[table_name]
                stats == TableStats(table_name, info.row_count,
                           EstimateMemoryUsage(table_name, eng),
                           [i \in 1..Len(info.columns) |->
                               AnalyzeColumnStats(eng.catalog[table_name], info.columns[i], faults)])
            IN Returned(stats, [eng EXCEPT !.cache = MapPut(@, table_name, stats)], TRUE)

\* DataAnalyzer.analyze_table(table_name, force_refresh); faults are the
\* statistic groups whose query fails during this call
AnalyzeTable(table_name, force_refresh, faults, eng) ==
    IF ~force_refresh /\ table_name \in DOMAIN eng.cache
    THEN Returned(eng.cache[table_name], eng, TRUE)
    ELSE IF table_name \notin DOMAIN eng.tables THEN Raised(NoTableText, eng)
    ELSE IF ~eng.conn THEN Raised(NoConnText, eng)
    ELSE IF table_name \notin DOMAIN eng.catalog THEN Raised(CatalogMissingText, eng)
    ELSE LET info == eng.tables[table_name]
             stats == TableStats(table_name, info.row_count,
                        EstimateMemoryUsage(table_name, eng),
                        [i \in 1..Len(info.columns) |->
                            AnalyzeColumnStats(eng.catalog[table_name], info.columns[i], faults)])
         IN Returned(stats, [eng EXCEPT !.cache = MapPut(@, table_name, stats)], TRUE)

\* DataAnalyzer.clear_cache(table_name); NoKey stands for None
ClearCache(table_name, eng) ==
    IF table_name # NoKey
    THEN [eng EXCEPT !.cache = MapDel(@, ParseName(table_name))]
    ELSE [eng EXCEPT !.cache = EmptyMap]

\* DataAnalyzer.get_missing_value_report(table_name): the report built from
\* analyze_table(table_name)
GetMissingValueReport(table_name, eng) ==
    LET report(stats) ==
            [table_name |-> table_name, total_rows |-> stats.row_count,
             total_columns |-> stats.column_count,
             total_cells |-> stats.row_count * stats.column_count,
             total_missing |->
                 SumOver([i \in 1..Len(stats.columns) |-> stats.columns[i].null_count],
                         1..Len(stats.columns)),
             missing_percentage |->
                 Percentage(SumOver([i \in 1..Len(stats.columns) |->
                                        stats.columns[i].null_count],
                                    1..Len(stats.columns)),
                            stats.row_count * stats.column_count)]
        built(out) == IF out.raised THEN out
                      ELSE Returned(report(out.value), out.eng, TRUE)
    IN built(AnalyzeTable(table_name, FALSE, NoFaults, eng))

\* DataAnalyzer.get_numeric_summary(table_name): the numeric columns of
\* analyze_table(table_name)
GetNumericSummary(table_name, eng) ==
    LET summary(numeric) ==
            [table_name |-> table_name,
             numeric_column_count |-> Len(numeric),
             columns |-> numeric]
        built(out) ==
            IF out.raised THEN out
            ELSE Returned(summary(SelectSeq(out.value.columns,
                                            LAMBDA c : IsNumericDtype(c.dtype))),
                          out.eng, TRUE)
    IN built(AnalyzeTable(table_name, FALSE, NoFaults, eng))

Bucket_unshifted(v, min_val, max_val, bins) ==
    IF max_val = min_val THEN v
    ELSE ((v - min_val) * bins) \div (max_val - min_val)

\* FLOOR((value - min_val) / bin_width), where bin_width is
\* (max_val - min_val) / bins, or 1 when max_val = min_val; the quotient is
\* taken exactly
Bucket(v, min_val, max_val, bins) ==
    IF max_val = min_val THEN v - min_val
    ELSE ((v - min_val) * bins) \div (max_val - min_val)

BucketCount_distinct(cells, b, min_val, max_val, bins) ==
    Cardinality({v \in DistinctValues(cells) : Bucket(v, min_val, max_val, bins) = b})

\* COUNT(*) of the group of bucket b: the rows WHERE col IS NOT NULL whose
\* value falls in b
BucketCount(cells, b, min_val, max_val, bins) ==
    Cardinality({i \in 1..Len(cells) :
                    cells[i] # Absent /\ Bucket(cells[i][1], min_val, max_val, bins) = b})

\* result["histogram"]["data"]: one {"bin", "count"} entry per GROUP BY bin
HistogramData(cells, min_val, max_val, bins) ==
    {[bin |-> b, count |-> BucketCount(cells, b, min_val, max_val, bins)] :
        b \in {Bucket(v, min_val, max_val, bins) : v \in DistinctValues(cells)}}

\* result["frequency"]: the value/count pairs of GROUP BY col, the NULL
\* group written "NULL"
FrequencyData(cells) ==
    TopValues(cells) \cup
    (IF \E i \in 1..Len(cells) : cells[i] = Absent
     THEN {[value |-> "NULL",
            count |-> Cardinality({i \in 1..Len(cells) : cells[i] = Absent})]}
     ELSE {})

\* the dict get_column_distribution returns: its "error", "histogram" and
\* "frequency" entries, Absent for a key the dict does not hold
Distribution(error, histogram, frequency) ==
    [error |-> error, histogram |-> histogram, frequency |-> frequency]

ZeroDivisionText == "division by zero"

\* DataAnalyzer.get_column_distribution(table_name, column_name, bins): an
\* unknown table or column gives {"error": ...}; an engine failure or a
\* division by bins = 0 is caught and reported under "error"
GetColumnDistribution(table_name, column_name, bins, eng) ==
    LET known == /\ table_name \in DOMAIN eng.tables
                 /\ \E i \in 1..Len(eng.tables[table_name].columns) :
                        eng.tables[table_name].columns[i].name = column_name
        col == LET cs == eng.tables[table_name].columns
               IN cs[CHOOSE i \in 1..Len(cs) : cs[i].name = column_name]
        cells == CellsOf(eng.catalog[table_name], column_name)
        vals == DistinctValues(cells)
        failed(text) == Returned(Distribution(Some(text), Absent, Absent), eng, TRUE)
    IN IF ~known THEN failed(NoColumnText)
       ELSE IF ~eng.conn THEN failed(NoConnText)
       ELSE IF table_name \notin DOMAIN eng.catalog THEN failed(CatalogMissingText)
       ELSE IF ~IsNumericDtype(col.dtype)
            THEN Returned(Distribution(Absent, Absent, Some(FrequencyData(cells))), eng, TRUE)
       ELSE IF vals = {} THEN Returned(Distribution(Absent, Absent, Absent), eng, TRUE)
       ELSE IF SetMax(vals) # SetMin(vals) /\ bins = 0 THEN failed(ZeroDivisionText)
       ELSE Returned(Distribution(Absent,
                Some([bins |-> bins, min |-> SetMin(vals), max |-> SetMax(vals),
                      data |-> HistogramData(cells, SetMin(vals), SetMax(vals), bins)]),
                Absent), eng, TRUE)

\* DataAnalyzer.analyze_column(table_name, column_name)
AnalyzeColumn(p, eng) ==
    LET t == ParseName(p["table_name"])
    IN IF t \notin DOMAIN eng.tables THEN Raised(NoTableText, eng)
       ELSE IF p["column_name"] \notin ColumnsOf THEN Raised(NoColumnText, eng)
       ELSE IF ~eng.conn THEN Raised(NoConnText, eng)
       ELSE IF t \notin DOMAIN eng.catalog THEN Raised(CatalogMissingText, eng)
       ELSE Returned("ColumnReport", eng, TRUE)

\* the statement a payload's "sql" string stands for
ParseSql(s) == Sql(s, <<"data">>)

\* the value a handler builds from what the engine call returned: value on
\* success, the exception passed on otherwise
Reply(out, value) ==
    IF out.raised THEN out ELSE Returned(value, out.eng, TRUE)

\* getattr(self, "_handle_<kind>")(payload) for a kind that has a handler
Handler(kind, p, eng) ==
    IF FirstMissing(kind, p) # NoKey
    THEN Raised(KeyErrorText(FirstMissing(kind, p)), eng)
    ELSE CASE kind = "load_csv" ->
                Reply(LoadCsv(p["file_path"], p["table_name"], "none", eng), "TableInfo")
           [] kind = "drop_table" -> DropTable(ParseName(p["table_name"]), eng)
           [] kind = "get_tables" -> Returned("TableList", eng, TRUE)
           [] kind = "get_table_info" ->
                Returned(IF ParseName(p["table_name"]) \in DOMAIN eng.tables
                         THEN "TableInfo" ELSE None, eng, TRUE)
           \* the dict of the QueryResult's fields
           [] kind = "execute_query" ->
                ExecuteQuery(ParseSql(p["sql"]), 1000, 0, eng)
           [] kind = "get_table_data" ->
                GetTableData(ParseName(p["table_name"]), 1000, 0, eng)
           [] kind = "save_view" ->
                SaveView(p["view_name"], ParseSql(p["sql"]), eng)
           [] kind = "get_views" -> Returned("Views", eng, TRUE)
           [] kind = "delete_view" -> DeleteView(p["view_name"], eng)
           [] kind = "analyze_table" ->
                Reply(AnalyzeTable(ParseName(p["table_name"]), FALSE, NoFaults, eng), "TableStats")
           [] kind = "analyze_column" -> AnalyzeColumn(p, eng)
           [] kind = "get_missing_report" ->
                Reply(GetMissingValueReport(ParseName(p["table_name"]), eng), "MissingReport")
           [] kind = "get_numeric_summary" ->
                Reply(GetNumericSummary(ParseName(p["table_name"]), eng), "NumericSummary")
           \* the dict get_column_distribution returned
           [] kind = "get_column_distribution" ->
                GetColumnDistribution(ParseName(p["table_name"]), p["column_name"], 20, eng)
           [] kind = "export_csv" ->
                ExportToCsv(Sql("SELECT", ParseName(p["sql_or_table"])), eng)
           [] OTHER -> Returned("True", eng, FALSE)   \* _handle_shutdown

\* "Unknown message type: {message.type.value}"
UnknownTypeText(kind) ==
    IF kind = "response" THEN "Unknown message type: response"
    ELSE "Unknown message type: error"

HandleMessage_die(msg, eng) ==
    IF msg.type \in HandlerKinds
    THEN LET h == Handler(msg.type, msg.payload, eng)
         IN [resp |-> ResponseDict(msg.id, ~h.raised, h.value,
                                   IF h.raised THEN h.exc ELSE None),
             eng |-> h.eng, running |-> h.running /\ ~h.raised,
             raised |-> h.raised, exc |-> h.exc]
    ELSE [resp |-> ResponseDict(msg.id, FALSE, None, UnknownTypeText(msg.type)),
          eng |-> eng, running |-> TRUE, raised |-> FALSE, exc |-> None]

\* BackendWorker._handle_message: the Response for a decoded message, the
\* engine state and running flag it leaves, and whether the handler raised
HandleMessage(msg, eng) ==
    IF msg.type \in HandlerKinds
    THEN LET h == Handler(msg.type, msg.payload, eng)
         IN [resp |-> IF h.raised
                      THEN ResponseDict(msg.id, FALSE, None, h.exc)
                      ELSE ResponseDict(msg.id, TRUE, h.value, None),
             eng |-> h.eng, running |-> h.running,
             raised |-> h.raised, exc |-> h.exc]
    ELSE [resp |-> ResponseDict(msg.id, FALSE, None, UnknownTypeText(msg.type)),
          eng |-> eng, running |-> TRUE, raised |-> FALSE, exc |-> None]

(* ------------------------------------------------------------------ *)
(* State                                                              *)
(* ------------------------------------------------------------------ *)

VARIABLES
    cl,         \* the IPCClient object's fields
    events,     \* ids whose threading.Event (created by send_message) is set
    reqQ,       \* the inbound channel created by the g-th spawning start()
    respQ,      \* the outbound channel created by the g-th spawning start()
    wk,         \* the worker process spawned by the g-th start()
    ls,         \* the listener thread started by the g-th start()
    calls,      \* each thread's send_message call: position, id, kind, result
    mainpc,     \* position of the thread that calls start() and stop()
    lastCall,   \* history: the last start()/stop() call made; tick flips per call
    generated,  \* history: the request ids in generation order
    wlog,       \* history: per worker, the requests it took off its channel
    fed,        \* number of requests fed to the worker (WorkerSpec)
    hist,       \* history: the table names dropped and not loaded since, and
                \* those of them created again in the connection by other means
    thr         \* each thread's call of an engine or analyzer method inside
                \* the worker process: position, method, value returned

vars == <<cl, events, reqQ, respQ, wk, ls, calls, mainpc, lastCall,
          generated, wlog, fed, hist, thr>>

\* the spawning start() calls, each creating a worker, two channels, a listener
Gens == 1..MaxStarts

\* the threads that call send_message; "main" calls it from stop()
Users == {"t1", "t2"}
Threads == Users \cup {"main"}

NoMsg == MessageDict(ReqId(0), None, EmptyPayload)
NoResp == ResponseDict(ReqId(0), FALSE, None, None)

\* BackendWorker.__init__ then the head of run(): running, engine created
WorkerStarted == [pc |-> "poll", running |-> TRUE, msg |-> NoMsg,
                  resp |-> NoResp, eng |-> NewEngine]
WorkerUnborn == [WorkerStarted EXCEPT !.pc = "unborn"]

\* a process that ended: it exited by itself (engine closed) or was terminated
WorkerEnded(how) ==
    [pc |-> how, running |-> FALSE, msg |-> NoMsg, resp |-> NoResp,
     eng |-> [NewEngine EXCEPT !.conn = FALSE]]

ListenerUnborn == [pc |-> "unborn", q |-> 0, resp |-> NoResp]

CallIdle == [pc |-> "idle", id |-> ReqId(0), kind |-> None, result |-> NoResp]

\* nothing was dropped yet
NoHistory == [dropped |-> {}, recreated |-> {}]

\* no thread is in an engine or analyzer method
NoThreads == [t \in Users |-> [pc |-> "idle", op |-> None, ret |-> None]]

\* IPCClient.__init__ (0 stands for None in the queue, process and thread fields)
NewClient ==
    [request_queue |-> 0, response_queue |-> 0, backend_process |-> 0,
     request_id_counter |-> 0, pending_requests |-> {}, responses |-> {},
     response_listener |-> 0, running |-> FALSE]

(* ------------------------------------------------------------------ *)
(* BackendWorker.run                                                  *)
(* ------------------------------------------------------------------ *)

LogEntry(d, stage) ==
    [id |-> d.id, type |-> d.type, stage |-> stage, raised |-> FALSE, exc |-> None]

SetLast(log, e) == [log EXCEPT ![Len(log)] = e]

\* Message.from_dict succeeds: MessageType(data["type"]) finds the value
Decodable(d) == d.type \in MessageTypeValues

\* request_queue.get returns a dict; Message.from_dict decodes it or raises
\* ValueError, which run() catches, prints and continues without responding
WorkerPoll(g) ==
    /\ wk[g].pc = "poll" /\ wk[g].running
    /\ reqQ[g] # <<>>
    /\ LET got == QueueGet(reqQ[g])
           d == got.item
       IN /\ reqQ' = [reqQ EXCEPT ![g] = got.rest]
          /\ IF Decodable(d)
             THEN /\ wk' = [wk EXCEPT ![g].pc = "handle", ![g].msg = d]
                  /\ wlog' = [wlog EXCEPT ![g] = Append(@, LogEntry(d, "decoded"))]
             ELSE /\ wk' = wk
                  /\ wlog' = [wlog EXCEPT ![g] = Append(@, LogEntry(d, "undecodable"))]
    /\ UNCHANGED <<thr, hist, cl, events, respQ, ls, calls, mainpc, lastCall, generated, fed>>

\* response = self._handle_message(message)
WorkerHandle(g) ==
    /\ wk[g].pc = "handle"
    /\ LET h == HandleMessage(wk[g].msg, wk[g].eng)
       IN /\ wk' = [wk EXCEPT ![g].pc = "put", ![g].resp = h.resp,
                              ![g].eng = h.eng, ![g].running = h.running]
          /\ wlog' = [wlog EXCEPT ![g] =
                SetLast(@, [@[Len(@)] EXCEPT !.stage = "handled",
                                !.raised = h.raised, !.exc = h.exc])]
    /\ UNCHANGED <<thr, hist, cl, events, reqQ, respQ, ls, calls, mainpc, lastCall, generated, fed>>

\* self.response_queue.put(response.to_dict())
WorkerPut(g) ==
    /\ wk[g].pc = "put"
    /\ respQ' = [respQ EXCEPT ![g] = QueuePut(@, wk[g].resp)]
    /\ wk' = [wk EXCEPT ![g].pc = "poll", ![g].msg = NoMsg, ![g].resp = NoResp]
    /\ wlog' = [wlog EXCEPT ![g] = SetLast(@, [@[Len(@)] EXCEPT !.stage = "answered"])]
    /\ UNCHANGED <<thr, hist, cl, events, reqQ, ls, calls, mainpc, lastCall, generated, fed>>

\* the loop condition fails: engine.close() and the process exits
WorkerExit(g) ==
    /\ wk[g].pc = "poll" /\ ~wk[g].running
    /\ wk' = [wk EXCEPT ![g] = WorkerEnded("exited")]
    /\ UNCHANGED <<thr, hist, cl, events, reqQ, respQ, ls, calls, mainpc, lastCall,
                   generated, wlog, fed>>

(* ------------------------------------------------------------------ *)
(* WorkerSpec: run_backend_worker(request_queue, response_queue) fed   *)
(* request dicts of every kind                                        *)
(* ------------------------------------------------------------------ *)

\* the payloads tried with a kind: handlers that read no key get the empty one
PayloadsFor(kind) ==
    IF RequiredKeys(kind) = <<>> THEN {EmptyPayload}
    ELSE IF kind \in {"load_csv", "analyze_table", "analyze_column",
                       "get_table_data", "get_column_distribution"}
         THEN {EmptyPayload, GoodPayload, BadPayload}
         ELSE {EmptyPayload, GoodPayload}

\* the environment puts a request dict on the worker's inbound channel
Feed ==
    /\ fed < MaxFeed
    /\ \E kind \in MessageTypeValues \cup {BogusKind} :
         \E p \in PayloadsFor(kind) :
            reqQ' = [reqQ EXCEPT ![1] = QueuePut(@, MessageDict(ReqId(fed + 1), kind, p))]
    /\ fed' = fed + 1
    /\ UNCHANGED <<thr, hist, cl, events, respQ, wk, ls, calls, mainpc, lastCall, generated, wlog>>

WorkerInit ==
    /\ cl = NewClient
    /\ events = {}
    /\ reqQ = [g \in Gens |-> <<>>]
    /\ respQ = [g \in Gens |-> <<>>]
    /\ wk = [g \in Gens |-> IF g = 1 THEN WorkerStarted ELSE WorkerUnborn]
    /\ ls = [g \in Gens |-> ListenerUnborn]
    /\ calls = [c \in Threads |-> CallIdle]
    /\ mainpc = "idle"
    /\ lastCall = [op |-> None, tick |-> 0]
    /\ generated = <<>>
    /\ wlog = [g \in Gens |-> <<>>]
    /\ fed = 0
    /\ hist = NoHistory
    /\ thr = NoThreads

WorkerNext ==
    \/ Feed
    \/ WorkerPoll(1)
    \/ WorkerHandle(1)
    \/ WorkerPut(1)
    \/ WorkerExit(1)

WorkerSpec == WorkerInit /\ [][WorkerNext]_vars

(* ------------------------------------------------------------------ *)
(* EngineSpec: the DataEngine and DataAnalyzer of one worker, called   *)
(* method by method                                                   *)
(* ------------------------------------------------------------------ *)

\* the file paths passed to load_csv: one that exists, one that does not
LoadPaths == {"data.csv", "nofile.csv"}

\* the table_name arguments of load_csv: None, and a name that collides with
\* what the uniqueness loop generates
LoadNames == {NoKey, "data_1"}

\* the loads tried: every name and fault with the file that exists, and one
\* load of the file that does not
LoadArgs ==
    ({"data.csv"} \X LoadNames \X LoadFaults) \cup {<<"nofile.csv", NoKey, "none">>}

\* the table names the other operations are called with
OpNames == {<<"data">>, <<"data", 1>>}

\* the (limit, offset) pairs the queries are called with: the defaults, a page
PageArgs == {<<1000, 0>>, <<1, 1>>}

\* the statements tried: every verb on every name, one text that does not parse
Statements ==
    {Sql(verb, t) : verb \in SqlVerbs \ {"GARBAGE"}, t \in OpNames}
        \cup {Sql("GARBAGE", <<"data">>)}

\* the engine and analyzer state of the worker
Eng == wk[1].eng

\* a step that leaves everything but the worker's engine and the history
EngineFrame ==
    UNCHANGED <<thr, cl, events, reqQ, respQ, ls, calls, mainpc, lastCall,
                generated, wlog, fed>>

\* load_csv(file_path, table_name), with what goes wrong inside it
LoadCsvStep(file_path, table_name, fault) ==
    /\ LET out == LoadCsv(file_path, table_name, fault, Eng)
           made == DOMAIN out.eng.catalog \ DOMAIN Eng.catalog
       IN /\ Cardinality(DOMAIN out.eng.catalog) <= MaxTables
          /\ wk' = [wk EXCEPT ![1].eng = out.eng]
          /\ hist' = IF out.raised
                     THEN [hist EXCEPT !.recreated = @ \cup (made \cap hist.dropped)]
                     ELSE [dropped |-> hist.dropped \ {out.value.name},
                           recreated |-> hist.recreated \ {out.value.name}]
    /\ EngineFrame

\* drop_table(table_name)
DropTableStep(t) ==
    /\ LET out == DropTable(t, Eng)
       IN /\ wk' = [wk EXCEPT ![1].eng = out.eng]
          /\ hist' = IF out.value = "True"
                     THEN [dropped |-> hist.dropped \cup {t},
                           recreated |-> hist.recreated \ {t}]
                     ELSE hist
    /\ EngineFrame

\* execute_query(sql, limit, offset) with the default limit and offset
ExecuteQueryStep(sql) ==
    /\ LET out == ExecuteQuery(sql, 1000, 0, Eng)
           made == DOMAIN out.eng.catalog \ DOMAIN Eng.catalog
       IN /\ Cardinality(DOMAIN out.eng.catalog) <= MaxTables
          /\ \A n \in DOMAIN out.eng.catalog : Len(out.eng.catalog[n]) <= MaxRows
          /\ wk' = [wk EXCEPT ![1].eng = out.eng]
          /\ hist' = [hist EXCEPT !.recreated = @ \cup (made \cap hist.dropped)]
    /\ EngineFrame

\* analyze_table(table_name, force_refresh), with the statistic groups whose
\* query fails
AnalyzeTableStep(t, force, faults) ==
    /\ wk' = [wk EXCEPT ![1].eng = AnalyzeTable(t, force, faults, Eng).eng]
    /\ hist' = hist
    /\ EngineFrame

\* clear_cache(table_name)
ClearCacheStep(table_name) ==
    /\ wk' = [wk EXCEPT ![1].eng = ClearCache(table_name, Eng)]
    /\ hist' = hist
    /\ EngineFrame

\* save_view(view_name, sql)
SaveViewStep(v, sql) ==
    /\ wk' = [wk EXCEPT ![1].eng = SaveView(v, sql, Eng).eng]
    /\ hist' = hist
    /\ EngineFrame

\* delete_view(view_name)
DeleteViewStep(v) ==
    /\ wk' = [wk EXCEPT ![1].eng = DeleteView(v, Eng).eng]
    /\ hist' = hist
    /\ EngineFrame

\* close()
EngClose ==
    /\ Eng.conn
    /\ wk' = [wk EXCEPT ![1].eng = Close(Eng)]
    /\ hist' = hist
    /\ EngineFrame

EngLoadCsv == \E a \in LoadArgs : LoadCsvStep(a[1], a[2], a[3])

EngDropTable == \E t \in OpNames : DropTableStep(t)

EngExecuteQuery == \E sql \in Statements : ExecuteQueryStep(sql)

EngAnalyzeTable == \E t \in OpNames, force \in BOOLEAN : AnalyzeTableStep(t, force, NoFaults)

EngineNext ==
    \/ EngLoadCsv
    \/ EngDropTable
    \/ EngExecuteQuery
    \/ EngAnalyzeTable
    \/ EngClose

EngineSpec == WorkerInit /\ [][EngineNext]_vars

(* ------------------------------------------------------------------ *)
(* CacheSpec: the same engine and analyzer with two files loaded      *)
(* under one name, the view operations and clear_cache                *)
(* ------------------------------------------------------------------ *)

\* the loads tried: data.csv under its own name, other.csv under the name data
CacheLoads == {<<"data.csv", NoKey>>, <<"other.csv", "data">>}

\* the view names given to save_view and delete_view
ViewNames == {"v"}

\* the table_name arguments of clear_cache: None, and a name
ClearNames == {NoKey, "data"}

\* one call of a method on the table data or the view v: load_csv,
\* drop_table, execute_query of an INSERT or a DROP, analyze_table,
\* clear_cache, save_view, delete_view, close
CacheNext ==
    \/ \E a \in CacheLoads : LoadCsvStep(a[1], a[2], "none")
    \/ DropTableStep(<<"data">>)
    \/ \E verb \in {"INSERT", "DROP"} : ExecuteQueryStep(Sql(verb, <<"data">>))
    \/ \E force \in BOOLEAN : AnalyzeTableStep(<<"data">>, force, NoFaults)
    \/ \E t \in ClearNames : ClearCacheStep(t)
    \/ \E v \in ViewNames : SaveViewStep(v, Sql("SELECT", <<"data">>))
    \/ \E v \in ViewNames : DeleteViewStep(v)
    \/ EngClose

CacheSpec == WorkerInit /\ [][CacheNext]_vars

(* ------------------------------------------------------------------ *)
(* StatsSpec: the analyzer over the table data, loaded from a file    *)
(* whose numeric column holds any cells                               *)
(* ------------------------------------------------------------------ *)

\* the contents of the column x: every sequence of at most MaxCells cells,
\* each NULL or a value
ColumnContents == UNION {[1..n -> {Null} \cup 1..MaxValue] : n \in 0..MaxCells}

\* the engine after load_csv of a file with these rows as the table data
LoadedEngine(rows) ==
    [NewEngine EXCEPT
        !.catalog = MapPut(EmptyMap, <<"data">>, rows),
        !.tables = MapPut(EmptyMap, <<"data">>,
                          TableInfo(<<"data">>, "data.csv", Len(rows), Columns))]

\* the bins arguments of get_column_distribution
Bins == {0, 1, 2, 10}

StatsInit ==
    /\ cl = NewClient
    /\ events = {}
    /\ reqQ = [g \in Gens |-> <<>>]
    /\ respQ = [g \in Gens |-> <<>>]
    /\ \E rows \in ColumnContents :
         wk = [g \in Gens |-> IF g = 1 THEN [WorkerStarted EXCEPT !.eng = LoadedEngine(rows)]
                                      ELSE WorkerUnborn]
    /\ ls = [g \in Gens |-> ListenerUnborn]
    /\ calls = [c \in Threads |-> CallIdle]
    /\ mainpc = "idle"
    /\ lastCall = [op |-> None, tick |-> 0]
    /\ generated = <<>>
    /\ wlog = [g \in Gens |-> <<>>]
    /\ fed = 0
    /\ hist = NoHistory
    /\ thr = NoThreads

\* get_column_distribution("data", column_name, bins): the thread keeps what
\* the call returned
StatsDistribution ==
    /\ \E c \in ColumnsOf, bins \in Bins :
         thr' = [thr EXCEPT !["t1"] =
                    [pc |-> "idle", op |-> "get_column_distribution",
                     ret |-> GetColumnDistribution(<<"data">>, c, bins, Eng).value]]
    /\ UNCHANGED <<cl, events, reqQ, respQ, wk, ls, calls, mainpc, lastCall,
                   generated, wlog, fed, hist>>

\* analyze_table("data", force_refresh) while some statistic queries fail,
\* clear_cache(), get_column_distribution
StatsNext ==
    \/ \E force \in BOOLEAN, faults \in SUBSET FaultPairs :
            AnalyzeTableStep(<<"data">>, force, faults)
    \/ ClearCacheStep(NoKey)
    \/ StatsDistribution

StatsSpec == StatsInit /\ [][StatsNext]_vars

(* ------------------------------------------------------------------ *)
(* ConnSpec: two threads of one process inside the methods of the     *)
(* same DataEngine and DataAnalyzer. A thread is idle, has called a   *)
(* method, holds the analyzer's lock ("alocked"), has the table's     *)
(* TableInfo ("ready"), is inside conn.execute / conn.close           *)
(* ("executing"), or is at analyze_table's memory estimate            *)
(* ("estimate"); an engine method is "executing" from the moment it   *)
(* holds the engine's _lock until it returns.                         *)
(* ------------------------------------------------------------------ *)

\* the DataEngine methods: each runs its statements inside "with self._lock"
\* (get_table_data inside the execute_query it calls)
EngineOps ==
    {"load_csv", "execute_query", "get_table_data", "save_view", "delete_view",
     "drop_table", "export_to_csv", "close"}

\* the DataAnalyzer methods whose work is analyze_table's: analyze_table
\* itself (called with force_refresh) and the two reports, which call
\* analyze_table(table_name) and hold no lock of their own
ReportOps == {"analyze_table", "get_missing_value_report", "get_numeric_summary"}

\* the DataAnalyzer methods that execute statements on self._engine._conn
AnalyzerOps ==
    ReportOps \cup {"analyze_column", "analyze_column_from_sql",
                    "get_column_distribution"}

\* DataAnalyzer._lock is held: a thread is inside the "with self._lock" of
\* analyze_table or of clear_cache
AnalyzerLocked ==
    \E u \in Users :
        /\ thr[u].op \in ReportOps \cup {"clear_cache"}
        /\ thr[u].pc \in {"alocked", "ready", "executing", "estimate"}

\* what a method returns or raises and the engine it leaves; the engine
\* methods leave their "with self._lock"
MethodEffect(op, eng) ==
    LET sel == Sql("SELECT", <<"data">>)
        unlocked(out) == IF op \in EngineOps
                         THEN [out EXCEPT !.eng.lock = FALSE] ELSE out
    IN unlocked(
         CASE op = "load_csv" -> LoadCsv("data.csv", NoKey, "none", eng)
           [] op = "execute_query" -> ExecuteQuery(sel, 1000, 0, eng)
           [] op = "get_table_data" -> GetTableData(<<"data">>, 1000, 0, eng)
           [] op = "save_view" -> SaveView("v", sel, eng)
           [] op = "delete_view" -> DeleteView("v", eng)
           [] op = "drop_table" -> DropTable(<<"data">>, eng)
           [] op = "export_to_csv" -> ExportToCsv(sel, eng)
           [] op = "close" -> Returned(None, Close(eng), TRUE)
           [] op = "analyze_table" -> AnalyzeTable(<<"data">>, TRUE, NoFaults, eng)
           [] op = "get_missing_value_report" -> GetMissingValueReport(<<"data">>, eng)
           [] op = "get_numeric_summary" -> GetNumericSummary(<<"data">>, eng)
           [] op = "clear_cache" -> Returned(None, ClearCache(NoKey, eng), TRUE)
           [] OTHER -> Returned(None, eng, TRUE))

\* the thread after its method ended: what it called and whether the call
\* returned or raised
Ended(op, raised) ==
    [pc |-> "idle", op |-> op, ret |-> IF raised THEN "raised" ELSE "returned"]

\* a step of a thread inside the engine or the analyzer
ConnFrame ==
    UNCHANGED <<cl, events, reqQ, respQ, ls, calls, mainpc, lastCall,
                generated, wlog, fed, hist>>

\* a thread calls a method (a load only while a table name is left)
ThrCall(t) ==
    /\ thr[t].pc = "idle"
    /\ \E op \in EngineOps \cup AnalyzerOps \cup {"clear_cache"} :
         /\ op = "load_csv" =>
               Cardinality(DOMAIN Eng.tables)
                 + Cardinality({u \in Users : thr[u].pc # "idle"
                                                /\ thr[u].op = "load_csv"}) < MaxTables
         /\ thr' = [thr EXCEPT ![t] = [pc |-> "called", op |-> op, ret |-> None]]
    /\ UNCHANGED wk
    /\ ConnFrame

ThrAcquire_relock(t) ==
    /\ thr[t].pc = "called"
    /\ thr[t].op \in EngineOps
    /\ ~Eng.lock
    /\ wk' = [wk EXCEPT ![1].eng.lock = TRUE]
    /\ thr' = [thr EXCEPT ![t].pc = IF thr[t].op = "get_table_data" THEN "called"
                                    ELSE IF Eng.conn THEN "executing" ELSE "locked"]
    /\ ConnFrame

\* an engine method enters "with self._lock" and runs its statement on
\* self._conn; on a closed engine (_conn is None) it holds the lock and
\* executes nothing. get_table_data holds no lock when it calls
\* execute_query, which enters the lock here
ThrAcquire(t) ==
    /\ thr[t].pc = "called"
    /\ thr[t].op \in EngineOps
    /\ ~Eng.lock
    /\ wk' = [wk EXCEPT ![1].eng.lock = TRUE]
    /\ thr' = [thr EXCEPT ![t].pc = IF Eng.conn THEN "executing" ELSE "locked"]
    /\ ConnFrame

\* analyze_table, or clear_cache, enters "with self._lock", the analyzer's
\* own lock
ThrAnalyzerAcquire(t) ==
    /\ thr[t].pc = "called"
    /\ thr[t].op \in ReportOps \cup {"clear_cache"}
    /\ ~AnalyzerLocked
    /\ thr' = [thr EXCEPT ![t].pc = "alocked"]
    /\ UNCHANGED wk
    /\ ConnFrame

\* without force_refresh a cached table is answered from the cache: the
\* report is built from it and the analyzer's lock is left
ThrCached(t) ==
    /\ thr[t].pc = "alocked"
    /\ thr[t].op \in ReportOps \ {"analyze_table"}
    /\ <<"data">> \in DOMAIN Eng.cache
    /\ thr' = [thr EXCEPT ![t] = Ended(thr[t].op, FALSE)]
    /\ UNCHANGED wk
    /\ ConnFrame

\* self._engine.get_table_info(table_name), which takes and leaves the
\* engine's lock; an unknown table ends the method (ValueError, or the
\* {"error": ...} dict of get_column_distribution) and leaves its "with"
ThrTableInfo(t) ==
    /\ \/ /\ thr[t].pc = "alocked"
          /\ thr[t].op \in ReportOps
          /\ thr[t].op = "analyze_table" \/ <<"data">> \notin DOMAIN Eng.cache
       \/ thr[t].pc = "called" /\ thr[t].op \in {"analyze_column", "get_column_distribution"}
    /\ ~Eng.lock
    /\ thr' = [thr EXCEPT ![t] =
                  IF <<"data">> \in DOMAIN Eng.tables
                  THEN [@ EXCEPT !.pc = "ready"]
                  ELSE Ended(thr[t].op, thr[t].op # "get_column_distribution")]
    /\ UNCHANGED wk
    /\ ConnFrame

\* an analyzer method calls conn.execute on self._engine._conn, with no
\* engine lock; on a closed engine the call raises and the method ends
\* (get_column_distribution catches it and returns the {"error": ...} dict)
ThrStatement(t) ==
    /\ \/ thr[t].pc = "ready"
       \/ thr[t].pc = "called" /\ thr[t].op = "analyze_column_from_sql"
    /\ thr' = [thr EXCEPT ![t] =
                  IF Eng.conn
                  THEN [@ EXCEPT !.pc = "executing"]
                  ELSE Ended(thr[t].op, thr[t].op # "get_column_distribution")]
    /\ UNCHANGED wk
    /\ ConnFrame

\* analyze_table's columns are done: _estimate_memory_usage is called, still
\* inside the analyzer's lock
ThrEstimate(t) ==
    /\ thr[t].pc = "executing"
    /\ thr[t].op \in ReportOps
    /\ thr' = [thr EXCEPT ![t].pc = "estimate"]
    /\ UNCHANGED wk
    /\ ConnFrame

\* the method returns or raises: its statements are done, its locks are
\* left. analyze_table first passes the get_table_info of
\* _estimate_memory_usage, which takes and leaves the engine's lock
ThrReturn(t) ==
    /\ \/ thr[t].pc \in {"executing", "locked"} /\ thr[t].op \notin ReportOps
       \/ thr[t].pc = "estimate" /\ ~Eng.lock
       \/ thr[t].pc = "alocked" /\ thr[t].op = "clear_cache"
    /\ wk' = [wk EXCEPT ![1].eng = MethodEffect(thr[t].op, Eng).eng]
    /\ thr' = [thr EXCEPT ![t] = Ended(thr[t].op, MethodEffect(thr[t].op, Eng).raised)]
    /\ ConnFrame

ConnInit == StatsInit /\ Eng.catalog[<<"data">>] = <<1, 2>>

ConnNext ==
    \E t \in Users :
        \/ ThrCall(t)
        \/ ThrAcquire(t)
        \/ ThrAnalyzerAcquire(t)
        \/ ThrTableInfo(t)
        \/ ThrCached(t)
        \/ ThrStatement(t)
        \/ ThrEstimate(t)
        \/ ThrReturn(t)

ConnSpec == ConnInit /\ [][ConnNext]_vars

(* ------------------------------------------------------------------ *)
(* Properties of the worker loop (WorkerSpec)                         *)
(* ------------------------------------------------------------------ *)

\* the number of Responses on worker g's outbound channel that carry id
CountResp(g, id) ==
    Cardinality({k \in 1..Len(respQ[g]) : respQ[g][k].request_id = id})

\* the worker is done with a request it took: it went back to polling
Finished(e) == e.stage \in {"undecodable", "answered"}

\* the worker stopped looping only because it handled a shutdown request
StoppedOnlyByShutdown(g) ==
    (wk[g].pc = "exited" \/ ~wk[g].running) =>
        \E j \in 1..Len(wlog[g]) :
            wlog[g][j].type = "shutdown" /\ wlog[g][j].stage \in {"handled", "answered"}

\* C2: for every request the worker took off the inbound channel and is done
\* with, whatever its kind string, exactly one Response with its id is on the
\* outbound channel; and no id ever has two.
C2_ExactlyOneResponse ==
    \A i \in 1..Len(wlog[1]) :
        /\ CountResp(1, wlog[1][i].id) <= 1
        /\ Finished(wlog[1][i]) => CountResp(1, wlog[1][i].id) = 1

\* C3: when a handler raises, the Response built and put for that request is
\* (id, success=false, data None, error = the exception text), the running
\* flag stays true, the worker goes back to polling, and the request after it
\* is taken and answered by the same dispatch; the loop ends only by shutdown.
C3_RaiseBecomesFailedResponse ==
    /\ StoppedOnlyByShutdown(1)
    /\ \A i \in 1..Len(wlog[1]) :
         LET e == wlog[1][i]
             failed == ResponseDict(e.id, FALSE, None, e.exc)
         IN e.raised =>
              /\ e.exc # None
              /\ (i = Len(wlog[1]) /\ e.stage = "handled") =>
                     wk[1].resp = failed /\ wk[1].running /\ wk[1].pc = "put"
              /\ e.stage = "answered" =>
                     /\ CountResp(1, e.id) = 1
                     /\ \E k \in 1..Len(respQ[1]) : respQ[1][k] = failed
                     /\ i = Len(wlog[1]) => wk[1].running /\ wk[1].pc = "poll"
              /\ (i < Len(wlog[1]) /\ wlog[1][i + 1].stage = "answered") =>
                     CountResp(1, wlog[1][i + 1].id) = 1

\* C3 witness: a handler raised, and the request after it was answered with success
C3_Witness ==
    \E i \in 1..Len(wlog[1]) :
        /\ wlog[1][i].raised
        /\ i < Len(wlog[1])
        /\ wlog[1][i + 1].stage = "answered"
        /\ \E k \in 1..Len(respQ[1]) :
              respQ[1][k].request_id = wlog[1][i + 1].id /\ respQ[1][k].success

\* C4: every request whose kind is not a recognized request kind (no handler,
\* or a string outside MessageType) that the worker is done with was answered
\* with success=false and a non-empty error, and the worker keeps running.
C4_UnknownKindAnswered ==
    /\ StoppedOnlyByShutdown(1)
    /\ \A i \in 1..Len(wlog[1]) :
         (wlog[1][i].type \notin HandlerKinds /\ Finished(wlog[1][i])) =>
            \E k \in 1..Len(respQ[1]) :
                /\ respQ[1][k].request_id = wlog[1][i].id
                /\ ~respQ[1][k].success
                /\ respQ[1][k].error \notin {None, ""}

StartIsNoop_never(c) == FALSE

StartIsNoop(c) == c.backend_process # 0

\* stop(): "if self.backend_process is None: return"
StopIsNoop(c) == c.backend_process = 0

NextCounter_lostUpdate(n) == IF n >= 1 THEN n ELSE n + 1

\* _generate_request_id: self._request_id_counter += 1, under the lock
NextCounter(n) == n + 1

\* self._responses[response.request_id] = response
StoreResponse_signalOnly(rs, r) == rs

\* self._responses[response.request_id] = response
StoreResponse(rs, r) == {x \in rs : x.request_id # r.request_id} \cup {r}

\* self._responses.pop(request_id, None) / del self._responses[request_id]
RemoveResponse(rs, id) == {x \in rs : x.request_id # id}

LookupResponse_any(rs, id) ==
    IF rs # {} THEN CHOOSE x \in rs : TRUE ELSE NoResp

\* the stored response for id, or NoResp standing for None
LookupResponse(rs, id) ==
    IF \E x \in rs : x.request_id = id
    THEN CHOOSE x \in rs : x.request_id = id
    ELSE NoResp

\* the synthetic Response of a call whose wait elapsed
TimeoutResponse(id) == ResponseDict(id, FALSE, None, "Request timeout")

WaitTimesOut_never(id) == FALSE

\* event.wait(timeout) returns False: the timeout elapsed with the event unset
WaitTimesOut(id) == id \notin events

\* the generation the next spawning start() creates
NextGen == CHOOSE g \in Gens : wk[g].pc = "unborn" /\ \A h \in Gens : h < g => wk[h].pc # "unborn"

\* start()
Start ==
    /\ mainpc = "idle"
    /\ lastCall' = [op |-> "start", tick |-> 1 - lastCall.tick]
    /\ IF StartIsNoop(cl)
       THEN UNCHANGED <<cl, wk, ls>>
       ELSE /\ \E g \in Gens : wk[g].pc = "unborn"
            /\ cl' = [cl EXCEPT !.request_queue = NextGen, !.response_queue = NextGen,
                                !.backend_process = NextGen, !.running = TRUE,
                                !.response_listener = NextGen]
            /\ wk' = [wk EXCEPT ![NextGen] = WorkerStarted]
            /\ ls' = [ls EXCEPT ![NextGen].pc = "loop"]
    /\ UNCHANGED <<thr, hist, events, reqQ, respQ, calls, mainpc, generated, wlog, fed>>

\* stop() up to the registration of its send_message(SHUTDOWN, {}):
\* self._running = False, request_id = self._generate_request_id(),
\* self._pending_requests[request_id] = threading.Event()
StopBegin ==
    /\ mainpc = "idle"
    /\ lastCall' = [op |-> "stop", tick |-> 1 - lastCall.tick]
    /\ IF StopIsNoop(cl)
       THEN UNCHANGED <<cl, calls, mainpc, generated>>
       ELSE /\ Len(generated) < MaxReq
            /\ cl' = [cl EXCEPT !.running = FALSE,
                                !.request_id_counter = NextCounter(@),
                                !.pending_requests = @ \cup {ReqId(NextCounter(cl.request_id_counter))}]
            /\ calls' = [calls EXCEPT !["main"] =
                    [pc |-> "put", id |-> ReqId(cl'.request_id_counter),
                     kind |-> "shutdown", result |-> NoResp]]
            /\ generated' = Append(generated, ReqId(cl'.request_id_counter))
            /\ mainpc' = "stop_send"
    /\ UNCHANGED <<thr, hist, events, reqQ, respQ, wk, ls, wlog, fed>>

AfterJoin_noTerminate(w) == w

\* the process after join(timeout=5) and "if is_alive(): terminate()": a worker
\* that exited by itself stays so, any other one is terminated
AfterJoin(w) == IF w.pc = "exited" THEN w ELSE WorkerEnded("killed")

\* stop() after its send_message ended (returned, or raised and was ignored):
\* join(timeout=5); terminate() if the process is still alive; forget it.
\* The join may give up at any time before the worker exits by itself;
\* terminate() delivers SIGTERM, whose default action ends the process
StopJoin ==
    /\ mainpc = "stop_send"
    /\ calls["main"].pc \in {"done", "raised"}
    /\ wk' = [wk EXCEPT ![cl.backend_process] = AfterJoin(@)]
    /\ cl' = [cl EXCEPT !.backend_process = 0]
    /\ mainpc' = "idle"
    /\ calls' = [calls EXCEPT !["main"] = CallIdle]
    /\ events' = events \ {calls["main"].id}
    /\ UNCHANGED <<thr, hist, reqQ, respQ, ls, lastCall, generated, wlog, fed>>

\* the kinds the caller threads send, all with the payload {}: one whose
\* handler returns, one whose handler raises, and shutdown
UserKinds == {"get_tables", "analyze_table", "shutdown"}

\* the kind the caller thread sends while the main thread starts and stops
LifeKinds == {"get_tables"}

\* send_message, a thread's call: request_id = self._generate_request_id(),
\* event = threading.Event(), self._pending_requests[request_id] = event;
\* the Event of the thread's previous call is gone
CallBegin(c, kind) ==
    /\ calls[c].pc \in {"idle", "done", "raised"}
    /\ Len(generated) < MaxReq
    /\ cl' = [cl EXCEPT !.request_id_counter = NextCounter(@),
                        !.pending_requests = @ \cup {ReqId(NextCounter(cl.request_id_counter))}]
    /\ calls' = [calls EXCEPT ![c] =
            [pc |-> "put", id |-> ReqId(cl'.request_id_counter),
             kind |-> kind, result |-> NoResp]]
    /\ generated' = Append(generated, ReqId(cl'.request_id_counter))
    /\ events' = events \ {calls[c].id}
    /\ UNCHANGED <<thr, hist, reqQ, respQ, wk, ls, mainpc, lastCall, wlog, fed>>

\* self.request_queue.put(message.to_dict()); on a client that was never
\* started request_queue is None and the call raises AttributeError
CallPut(c) ==
    /\ calls[c].pc = "put"
    /\ IF cl.request_queue = 0
       THEN /\ calls' = [calls EXCEPT ![c].pc = "raised"]
            /\ reqQ' = reqQ
       ELSE /\ reqQ' = [reqQ EXCEPT ![cl.request_queue] =
                    QueuePut(@, MessageDict(calls[c].id, calls[c].kind, EmptyPayload))]
            /\ calls' = [calls EXCEPT ![c].pc = "wait"]
    /\ UNCHANGED <<thr, hist, cl, events, respQ, wk, ls, mainpc, lastCall, generated, wlog, fed>>

\* event.wait(timeout) returns False
CallWaitTimeout(c) ==
    /\ calls[c].pc = "wait"
    /\ WaitTimesOut(calls[c].id)
    /\ calls' = [calls EXCEPT ![c].pc = "timedout"]
    /\ UNCHANGED <<thr, hist, cl, events, reqQ, respQ, wk, ls, mainpc, lastCall, generated, wlog, fed>>

\* event.wait(timeout) returns True: response = self._responses.pop(request_id, None);
\* del self._pending_requests[request_id]; if response: return response
CallPop(c) ==
    /\ calls[c].pc = "wait"
    /\ calls[c].id \in events
    /\ LET r == LookupResponse(cl.responses, calls[c].id)
       IN /\ cl' = [cl EXCEPT !.responses = RemoveResponse(@, calls[c].id),
                              !.pending_requests = @ \ {calls[c].id}]
          /\ calls' = [calls EXCEPT ![c].pc = IF r # NoResp THEN "done" ELSE "timedout",
                                    ![c].result = r]
    /\ UNCHANGED <<thr, hist, events, reqQ, respQ, wk, ls, mainpc, lastCall, generated, wlog, fed>>

\* the timeout path: drop the pending registration and any stored response,
\* return Response(request_id, False, None, "Request timeout")
CallCleanup(c) ==
    /\ calls[c].pc = "timedout"
    /\ cl' = [cl EXCEPT !.responses = RemoveResponse(@, calls[c].id),
                        !.pending_requests = @ \ {calls[c].id}]
    /\ calls' = [calls EXCEPT ![c].pc = "done", ![c].result = TimeoutResponse(calls[c].id)]
    /\ UNCHANGED <<thr, hist, events, reqQ, respQ, wk, ls, mainpc, lastCall, generated, wlog, fed>>

\* _listen_responses, the thread's first loop test: "while self._running",
\* then it blocks in self.response_queue.get(timeout=0.1)
ListenerCheck(g) ==
    /\ ls[g].pc = "loop"
    /\ ls' = [ls EXCEPT ![g].pc = IF cl.running THEN "get" ELSE "exited",
                        ![g].q = IF cl.running THEN cl.response_queue ELSE 0]
    /\ UNCHANGED <<thr, hist, cl, events, reqQ, respQ, wk, calls, mainpc, lastCall, generated, wlog, fed>>

\* the get returns a response dict
ListenerRecv(g) ==
    /\ ls[g].pc = "get"
    /\ respQ[ls[g].q] # <<>>
    /\ LET got == QueueGet(respQ[ls[g].q])
       IN /\ respQ' = [respQ EXCEPT ![ls[g].q] = got.rest]
          /\ ls' = [ls EXCEPT ![g].pc = "got", ![g].resp = got.item]
    /\ UNCHANGED <<thr, hist, cl, events, reqQ, wk, calls, mainpc, lastCall, generated, wlog, fed>>

\* the get found nothing for 0.1 s and raises queue.Empty: continue, and the
\* loop test either ends the thread or enters the next get (a response that
\* arrives after the get gave up stays in the channel)
ListenerEmpty(g) ==
    /\ ls[g].pc = "get"
    /\ respQ[ls[g].q] = <<>> \/ ~cl.running
    /\ ls' = [ls EXCEPT ![g].pc = IF cl.running THEN "get" ELSE "exited",
                        ![g].q = IF cl.running THEN cl.response_queue ELSE 0]
    /\ UNCHANGED <<thr, hist, cl, events, reqQ, respQ, wk, calls, mainpc, lastCall, generated, wlog, fed>>

\* under the lock: store the response by id; set the event if the id is
\* pending; then the loop test ends the thread or enters the next get
ListenerStore(g) ==
    /\ ls[g].pc = "got"
    /\ cl' = [cl EXCEPT !.responses = StoreResponse(@, ls[g].resp)]
    /\ events' = IF ls[g].resp.request_id \in cl.pending_requests
                 THEN events \cup {ls[g].resp.request_id} ELSE events
    /\ ls' = [ls EXCEPT ![g].pc = IF cl.running THEN "get" ELSE "exited",
                        ![g].q = IF cl.running THEN cl.response_queue ELSE 0,
                        ![g].resp = NoResp]
    /\ UNCHANGED <<thr, hist, reqQ, respQ, wk, calls, mainpc, lastCall, generated, wlog, fed>>

Init ==
    /\ cl = NewClient
    /\ events = {}
    /\ reqQ = [g \in Gens |-> <<>>]
    /\ respQ = [g \in Gens |-> <<>>]
    /\ wk = [g \in Gens |-> WorkerUnborn]
    /\ ls = [g \in Gens |-> ListenerUnborn]
    /\ calls = [c \in Threads |-> CallIdle]
    /\ mainpc = "idle"
    /\ lastCall = [op |-> None, tick |-> 0]
    /\ generated = <<>>
    /\ wlog = [g \in Gens |-> <<>>]
    /\ fed = 0
    /\ hist = NoHistory
    /\ thr = NoThreads

Next ==
    \/ Start
    \/ StopBegin
    \/ StopJoin
    \/ \E kind \in LifeKinds : CallBegin("t1", kind)
    \/ \E c \in Threads : CallPut(c)
    \/ \E c \in Threads : CallWaitTimeout(c)
    \/ \E c \in Threads : CallPop(c)
    \/ \E c \in Threads : CallCleanup(c)
    \/ \E g \in Gens : ListenerCheck(g)
    \/ \E g \in Gens : ListenerRecv(g)
    \/ \E g \in Gens : ListenerEmpty(g)
    \/ \E g \in Gens : ListenerStore(g)
    \/ \E g \in Gens : WorkerPoll(g)
    \/ \E g \in Gens : WorkerHandle(g)
    \/ \E g \in Gens : WorkerPut(g)
    \/ \E g \in Gens : WorkerExit(g)

Spec == Init /\ [][Next]_vars

(* ------------------------------------------------------------------ *)
(* CallSpec: a client after its first start(), called from two threads *)
(* ------------------------------------------------------------------ *)

CallInit ==
    /\ cl = [NewClient EXCEPT !.request_queue = 1, !.response_queue = 1,
                              !.backend_process = 1, !.running = TRUE,
                              !.response_listener = 1]
    /\ events = {}
    /\ reqQ = [g \in Gens |-> <<>>]
    /\ respQ = [g \in Gens |-> <<>>]
    /\ wk = [g \in Gens |-> IF g = 1 THEN WorkerStarted ELSE WorkerUnborn]
    /\ ls = [g \in Gens |-> IF g = 1 THEN [ListenerUnborn EXCEPT !.pc = "loop"]
                                     ELSE ListenerUnborn]
    /\ calls = [c \in Threads |-> CallIdle]
    /\ mainpc = "idle"
    /\ lastCall = [op |-> "start", tick |-> 1]
    /\ generated = <<>>
    /\ wlog = [g \in Gens |-> <<>>]
    /\ fed = 0
    /\ hist = NoHistory
    /\ thr = NoThreads

CallNext ==
    \/ \E c \in Users, kind \in UserKinds : CallBegin(c, kind)
    \/ \E c \in Users : CallPut(c)
    \/ \E c \in Users : CallWaitTimeout(c)
    \/ \E c \in Users : CallPop(c)
    \/ \E c \in Users : CallCleanup(c)
    \/ ListenerCheck(1)
    \/ ListenerRecv(1)
    \/ ListenerEmpty(1)
    \/ ListenerStore(1)
    \/ WorkerPoll(1)
    \/ WorkerHandle(1)
    \/ WorkerPut(1)
    \/ WorkerExit(1)

CallSpec == CallInit /\ [][CallNext]_vars

\* the scheduling of the caller threads: a thread inside send_message keeps
\* running (the put does not block, the wait is bounded by its timeout, the
\* lock is held only for a few statements); nothing is assumed of the worker
\* or of the listener
FairCallSpec ==
    /\ CallSpec
    /\ \A c \in Users :
         /\ WF_vars(CallPut(c))
         /\ WF_vars(CallPop(c))
         /\ WF_vars(CallWaitTimeout(c))
         /\ WF_vars(CallCleanup(c))

(* ------------------------------------------------------------------ *)
(* StopSpec: a client after its first start(), stopped by the main    *)
(* thread while another thread calls send_message                     *)
(* ------------------------------------------------------------------ *)

StopNext ==
    \/ StopBegin
    \/ StopJoin
    \/ \E kind \in UserKinds : CallBegin("t1", kind)
    \/ \E c \in {"t1", "main"} : CallPut(c)
    \/ \E c \in {"t1", "main"} : CallWaitTimeout(c)
    \/ \E c \in {"t1", "main"} : CallPop(c)
    \/ \E c \in {"t1", "main"} : CallCleanup(c)
    \/ ListenerCheck(1)
    \/ ListenerRecv(1)
    \/ ListenerEmpty(1)
    \/ ListenerStore(1)
    \/ WorkerPoll(1)
    \/ WorkerHandle(1)
    \/ WorkerPut(1)
    \/ WorkerExit(1)

StopSpec == CallInit /\ [][StopNext]_vars

\* the scheduling of the thread that calls stop(): it keeps running through
\* stop()'s send_message (the put does not block, the wait is bounded by its
\* timeout) and through the bounded join; nothing is assumed of the worker,
\* of the listener or of the other caller thread
FairStopSpec ==
    /\ StopSpec
    /\ WF_vars(CallPut("main"))
    /\ WF_vars(CallPop("main"))
    /\ WF_vars(CallWaitTimeout("main"))
    /\ WF_vars(CallCleanup("main"))
    /\ WF_vars(StopJoin)

(* ------------------------------------------------------------------ *)
(* Properties of the client                                           *)
(* ------------------------------------------------------------------ *)

\* the thread is inside send_message, past the registration of its id
InProgress(c) == calls[c].pc \in {"put", "wait", "timedout"}

InProgressIds == {calls[c].id : c \in {t \in Threads : InProgress(t)}}

\* the Response the worker builds for the request of thread c's call
WorkerResponseFor(c) ==
    HandleMessage(MessageDict(calls[c].id, calls[c].kind, EmptyPayload), NewEngine).resp

\* C1: the Response a send_message call returns carries the id generated for
\* that call: it is the synthetic timeout Response for that id or the Response
\* the worker produced for that call's own request, never another call's.
C1_ResponseCarriesOwnId ==
    \A c \in Threads :
        calls[c].pc = "done" =>
            /\ calls[c].result.request_id = calls[c].id
            /\ calls[c].result \in {TimeoutResponse(calls[c].id), WorkerResponseFor(c)}

\* C1 witness: two threads' calls of different kinds both returned the worker's Response
C1_Witness ==
    /\ calls["t1"].pc = "done" /\ calls["t2"].pc = "done"
    /\ calls["t1"].kind # calls["t2"].kind
    /\ calls["t1"].result = WorkerResponseFor("t1")
    /\ calls["t2"].result = WorkerResponseFor("t2")
    /\ calls["t1"].result.success /\ ~calls["t2"].result.success

\* C6: the stored-responses map only ever holds ids of calls that are still in
\* progress: a Response for an id that is no longer pending is not retained.
C6_NoGhostResponseRetained ==
    \A r \in cl.responses : r.request_id \in InProgressIds

\* C7: the pending map never contains the id of a call that is not currently
\* in progress, however the call ended (response, timeout, or raising).
C7_PendingOnlyInProgress ==
    cl.pending_requests \subseteq InProgressIds

\* C8: every send_message call that has begun eventually ends, whatever the
\* worker and the listener do; and a call that returned without its event ever
\* having been set returned exactly Response(own id, false, None, "Request timeout").
C8_CallsReturn ==
    /\ \A c \in Users : InProgress(c) ~> (calls[c].pc \in {"done", "raised"})
    /\ [](\A c \in Users :
            (calls[c].pc = "done" /\ calls[c].id \notin events) =>
                calls[c].result = TimeoutResponse(calls[c].id))

\* C8 witness: a call returned the timeout Response from a worker that had exited
\* while the call's request was still on the inbound channel
C8_Witness ==
    \E c \in Users :
        /\ calls[c].pc = "done"
        /\ calls[c].result = TimeoutResponse(calls[c].id)
        /\ wk[1].pc = "exited"
        /\ \E k \in 1..Len(reqQ[1]) : reqQ[1][k].id = calls[c].id

\* C9: the request ids one client generates are strictly increasing in
\* generation order, hence pairwise distinct, also across stop()/start().
C9_IdsDistinctIncreasing ==
    /\ \A i, j \in 1..Len(generated) :
         i < j => generated[i] # generated[j] /\ generated[i][2] < generated[j][2]
    /\ \A c, d \in Threads :
         (c # d /\ InProgress(c) /\ InProgress(d)) => calls[c].id # calls[d].id

\* C9 witness: ids were generated for requests to the first worker and, after a
\* restart, to the second one
C9_Witness ==
    /\ Len(generated) >= 2
    /\ Len(wlog[1]) >= 1
    /\ Len(wlog[2]) >= 1

\* the worker processes that are alive
AliveWorkers == {g \in Gens : wk[g].pc \in {"poll", "handle", "put"}}

\* C10: a start() on a started client and a stop() on a client that is not
\* started change nothing (no field of the client, no process, channel or
\* listener, no message); and at most one worker process is alive at a time.
C10_StartStopIdempotent ==
    /\ [][ ( /\ lastCall' # lastCall
             /\ \/ lastCall'.op = "start" /\ cl.backend_process # 0
                \/ lastCall'.op = "stop" /\ cl.backend_process = 0 )
           => UNCHANGED <<cl, events, reqQ, respQ, wk, ls, calls, mainpc,
                          generated, wlog>> ]_vars
    /\ [](Cardinality(AliveWorkers) <= 1)

\* C10 witness: two calls were made of which one was a no-op (start, start or
\* stop, start), and the one worker spawned is alive
C10_Witness ==
    /\ lastCall = [op |-> "start", tick |-> 0]
    /\ cl.backend_process = 1
    /\ AliveWorkers = {1}
    /\ wk[2].pc = "unborn"
    /\ generated = <<>>

\* C11: a stop() on a started client always returns, and when it returns the
\* client holds no process handle and the worker it held is not running: it
\* exited by itself or was terminated, whether or not the shutdown request
\* was sent or answered.
C11_StopTerminatesWorkerGone ==
    /\ (mainpc = "stop_send") ~> (mainpc = "idle")
    /\ [][ (mainpc = "stop_send" /\ mainpc' = "idle") =>
              /\ cl'.backend_process = 0
              /\ wk'[cl.backend_process].pc \in {"exited", "killed"}
              /\ AliveWorkers' = {} ]_vars

\* C11 witness: stop() returned after its shutdown request timed out
\* unanswered, and the worker, which never took the request, was terminated
C11_Witness ==
    /\ lastCall.op = "stop" /\ mainpc = "idle"
    /\ cl.backend_process = 0
    /\ wk[1].pc = "killed"
    /\ reqQ[1] # <<>>
    /\ wlog[1] = <<>>

\* C12: a worker that exited did so on a shutdown request: that request is the
\* last one it dequeued, its Response (success=true) was put, the running flag
\* is false and the engine connection is closed; and every request dequeued
\* ahead of the shutdown request was handled and answered before the exit.
C12_ShutdownDrainsAndExits ==
    /\ ~wk[1].running =>
          /\ wlog[1] # <<>>
          /\ wlog[1][Len(wlog[1])].type = "shutdown"
    /\ wk[1].pc = "exited" =>
          LET j == Len(wlog[1])
          IN /\ wlog[1][j].stage = "answered"
             /\ \E k \in 1..Len(respQ[1]) :
                    respQ[1][k] = ResponseDict(wlog[1][j].id, TRUE, "True", None)
             /\ ~wk[1].eng.conn
             /\ \A i \in 1..(j - 1) :
                    /\ wlog[1][i].stage = "answered"
                    /\ CountResp(1, wlog[1][i].id) = 1

\* the listener threads blocked in, or returning from, a get on channel q
Readers(q) == {g \in Gens : ls[g].pc \in {"get", "got"} /\ ls[g].q = q}

\* C13: at every moment at most one listener thread of the client reads the
\* outbound channel, for every sequence of start(), stop() and start() again.
C13_SoleReader ==
    \A q \in Gens : Cardinality(Readers(q)) <= 1

(* ------------------------------------------------------------------ *)
(* Properties of the engine and the analyzer (EngineSpec)             *)
(* ------------------------------------------------------------------ *)

Max(a, b) == IF a >= b THEN a ELSE b

\* the limits and offsets the properties are stated for
PageRange == 0..(MaxRows + 1)

\* the name a load starts from: the requested one, or the file's stem
BaseName(path, tn) == ParseName(IF tn = NoKey THEN SanitizeTableName(path) ELSE tn)

\* C14: a successful load_csv registers exactly one new name and touches no
\* existing table: the name is the base name if the registry does not hold
\* it, otherwise base_k for the smallest k >= 1 that the registry does not hold.
C14_UniqueNameNoOverwrite ==
    \A path \in LoadPaths, tn \in LoadNames, fault \in LoadFaults :
        LET out == LoadCsv(path, tn, fault, Eng)
            pre == Eng.tables
            post == out.eng.tables
            base == BaseName(path, tn)
            n == out.value.name
        IN ~out.raised =>
             /\ n \notin DOMAIN pre
             /\ DOMAIN post = DOMAIN pre \cup {n}
             /\ Cardinality(DOMAIN post) = Cardinality(DOMAIN pre) + 1
             /\ \A m \in DOMAIN pre : post[m] = pre[m]
             /\ \A m \in DOMAIN Eng.catalog : out.eng.catalog[m] = Eng.catalog[m]
             /\ IF base \notin DOMAIN pre THEN n = base
                ELSE \E k \in 1..(Cardinality(DOMAIN pre) + 1) :
                        /\ n = Append(base, k)
                        /\ \A j \in 1..(k - 1) : Append(base, j) \in DOMAIN pre

\* C14 witness: the same file was loaded twice: the registry holds data and data_1
C14_Witness ==
    /\ DOMAIN Eng.tables = {<<"data">>, <<"data", 1>>}
    /\ Eng.tables[<<"data">>].file_path = "data.csv"
    /\ Eng.tables[<<"data", 1>>].file_path = "data.csv"

\* C15: a load_csv that raises (missing file, ingestion failing on both
\* attempts, a later step failing) leaves the registry as it was and no new
\* table in the engine.
C15_FailedLoadLeavesNothing ==
    \A path \in LoadPaths, tn \in LoadNames, fault \in LoadFaults :
        LET out == LoadCsv(path, tn, fault, Eng)
        IN out.raised =>
             /\ out.eng.tables = Eng.tables
             /\ DOMAIN out.eng.catalog = DOMAIN Eng.catalog

\* the call returned a QueryResult with a non-empty error and no rows
QueryFailed(out) ==
    /\ ~out.raised
    /\ out.value.error \notin {None, ""}
    /\ out.value.data = <<>>
    /\ out.value.row_count = 0

\* a dropped name is absent from get_tables() and queries against it fail
GoneFor(t) ==
    /\ t \notin GetTables(Eng)
    /\ \A page \in PageArgs :
         /\ QueryFailed(ExecuteQuery(Sql("SELECT", t), page[1], page[2], Eng))
         /\ QueryFailed(GetTableData(t, page[1], page[2], Eng))

C17_Pagination ==
    \A t \in DOMAIN Eng.catalog, limit \in PageRange, offset \in PageRange :
        LET r == ExecuteQuery(Sql("SELECT", t), limit, offset, Eng).value
            rows == Eng.catalog[t]
            N == Len(rows)
        IN /\ Eng.conn => r.error = None
           /\ r.error = None =>
                /\ r.total_rows = N
                /\ r.row_count = Len(r.data)
                /\ r.row_count = Min(limit, Max(0, N - offset))
                /\ \A i \in 1..r.row_count : r.data[i] = rows[offset + i]
                /\ offset >= N => r.data = <<>>

\* C17 witness: a table of MaxRows rows is paged: one row from the second
\* row on, and one row from an offset equal to the number of rows
C17_Witness ==
    \E t \in DOMAIN Eng.catalog :
        /\ Len(Eng.catalog[t]) = MaxRows
        /\ ExecuteQuery(Sql("SELECT", t), 1, 1, Eng).value.data = <<2>>
        /\ ExecuteQuery(Sql("SELECT", t), 1, MaxRows, Eng).value.row_count = 0

\* the statement cannot succeed: the connection is closed, the text does not
\* parse, or the table it names does not exist
MustFail(sql) ==
    \/ ~Eng.conn
    \/ sql.verb \in {"GARBAGE", "SELECT_LIMIT"}
    \/ sql.verb # "CREATE" /\ sql.table \notin DOMAIN Eng.catalog

\* C18: execute_query never raises: a failure gives a QueryResult with the
\* error populated, empty columns and data, row_count 0 and total_rows 0; the
\* engine mutex is released, the registry and the view map are unchanged, and
\* the worker's handler returns with the running flag still true.
C18_ExecuteQueryNeverRaises ==
    /\ \A sql \in Statements, page \in PageArgs :
         LET out == ExecuteQuery(sql, page[1], page[2], Eng)
         IN /\ ~out.raised
            /\ ~out.eng.lock
            /\ out.eng.tables = Eng.tables
            /\ out.eng.views = Eng.views
            /\ MustFail(sql) => out.value.error # None
            /\ out.value.error # None =>
                  /\ out.value.error # ""
                  /\ out.value = FailedQuery(out.value.error)
    /\ \A p \in {GoodPayload, BadPayload} :
         LET h == Handler("execute_query", p, Eng)
         IN ~h.raised /\ h.running

\* C18 witness: the connection is closed while tables are registered, and a
\* query against a registered table fails
C18_Witness ==
    /\ ~Eng.conn
    /\ <<"data">> \in DOMAIN Eng.tables
    /\ ExecuteQuery(Sql("SELECT", <<"data">>), 1000, 0, Eng).value.error = NoConnText

\* C19: analyze_table(t, force_refresh=false) with a cache entry for t returns
\* that entry and changes nothing, whatever the registry and the connection
\* hold (no lookup, no query); a second such call returns the same.
C19_CacheHit ==
    \A t \in DOMAIN Eng.cache :
        LET out == AnalyzeTable(t, FALSE, NoFaults, Eng)
            again == AnalyzeTable(t, FALSE, NoFaults, out.eng)
        IN /\ ~out.raised
           /\ out.value = Eng.cache[t]
           /\ out.eng = Eng
           /\ ~again.raised
           /\ again.value = out.value

\* C19 witness: a table was analyzed and then dropped, and the connection is
\* closed: a lookup or a query would raise
C19_Witness ==
    \E t \in DOMAIN Eng.cache :
        /\ t \notin DOMAIN Eng.tables
        /\ ~Eng.conn

\* C20: analyze_table(t, force_refresh=true) returns statistics of the current
\* table: row_count, the basis of the memory estimate and every column's
\* total_count all equal the table's current number of rows.
C20_ForceRefreshCurrent ==
    \A t \in DOMAIN Eng.tables :
        LET out == AnalyzeTable(t, TRUE, NoFaults, Eng)
        IN ~out.raised =>
             /\ \A i \in 1..Len(out.value.columns) :
                    out.value.columns[i].total_count = Len(Eng.catalog[t])
             /\ out.value.row_count = Len(Eng.catalog[t])
             /\ out.value.memory_usage = Len(Eng.catalog[t]) * 100

(* ------------------------------------------------------------------ *)
(* Properties of the cache, the registry and the views (CacheSpec)    *)
(* ------------------------------------------------------------------ *)

\* the table names the properties ask about: the loaded ones, one never loaded
AskedNames == OpNames \cup {<<"ghost">>}

\* the cache entry of name n, Absent when there is none
CacheEntry(eng, n) == IF n \in DOMAIN eng.cache THEN Some(eng.cache[n]) ELSE Absent

\* load_csv, drop_table, execute_query, save_view and delete_view leave the
\* cache as it is; analyze_table(t) touches no entry but t's, and none on a
\* cache hit; clear_cache removes what it is asked to and nothing else
CacheUntouched ==
    /\ \A path \in Files \cup LoadPaths, tn \in LoadNames \cup {"data"}, fault \in LoadFaults :
         LoadCsv(path, tn, fault, Eng).eng.cache = Eng.cache
    /\ \A t \in AskedNames : DropTable(t, Eng).eng.cache = Eng.cache
    /\ \A sql \in Statements : ExecuteQuery(sql, 1000, 0, Eng).eng.cache = Eng.cache
    /\ \A v \in ViewNames, t \in AskedNames :
         /\ SaveView(v, Sql("SELECT", t), Eng).eng.cache = Eng.cache
         /\ DeleteView(v, Eng).eng.cache = Eng.cache
    /\ \A t \in AskedNames, force \in BOOLEAN :
         LET out == AnalyzeTable(t, force, NoFaults, Eng)
         IN /\ \A n \in AskedNames \ {t} : CacheEntry(out.eng, n) = CacheEntry(Eng, n)
            /\ (~force /\ t \in DOMAIN Eng.cache) => out.eng.cache = Eng.cache
            /\ out.raised => out.eng.cache = Eng.cache
    /\ \A t \in AskedNames :
         DOMAIN ClearCache(NoKey, Eng).cache = {}
    /\ \A n \in AskedNames :
         CacheEntry(ClearCache("data", Eng), n) =
            IF n = <<"data">> THEN Absent ELSE CacheEntry(Eng, n)

\* C21: the cache entry of a table name changes only in a step of
\* analyze_table that computes that table, or of clear_cache; load_csv,
\* drop_table, execute_query, save_view and delete_view leave the cache
\* unchanged, and analyze_table(t, force_refresh=false) returns the entry that
\* is there, also after t was dropped and another file loaded under the name.
C21_CacheChangesOnlyByAnalyzeOrClear ==
    /\ [](CacheUntouched /\
          \A t \in DOMAIN Eng.cache :
              AnalyzeTable(t, FALSE, NoFaults, Eng).value = Eng.cache[t])
    /\ [][\A t \in AskedNames :
             CacheEntry(Eng', t) # CacheEntry(Eng, t) =>
                \/ \E force \in BOOLEAN : AnalyzeTableStep(t, force, NoFaults)
                \/ \E n \in ClearNames : ClearCacheStep(n)]_vars

\* C21 witness: data was analyzed when it held the two rows of data.csv, then
\* dropped, and other.csv (one row) was loaded under the name data: the
\* analysis without force_refresh still reports the two rows
C21_Witness ==
    /\ <<"data">> \in DOMAIN Eng.tables
    /\ Eng.tables[<<"data">>].file_path = "other.csv"
    /\ Eng.tables[<<"data">>].row_count = 1
    /\ <<"data">> \in DOMAIN Eng.cache
    /\ AnalyzeTable(<<"data">>, FALSE, NoFaults, Eng).value.row_count = 2
    /\ AnalyzeTable(<<"data">>, FALSE, NoFaults, Eng).value.columns[1].total_count = 2

\* the worker's Response to a request of this kind for the table named data
AnswerFor(kind) == HandleMessage(MessageDict(ReqId(1), kind, GoodPayload), Eng).resp

\* analyze_table, get_missing_value_report and get_numeric_summary raise for
\* the name, and the worker answers success=false
AnalysisRaises(t) ==
    /\ AnalyzeTable(t, FALSE, NoFaults, Eng).raised
    /\ GetMissingValueReport(t, Eng).raised
    /\ GetNumericSummary(t, Eng).raised
    /\ t = <<"data">> =>
         \A kind \in {"analyze_table", "get_missing_report", "get_numeric_summary"} :
            ~AnswerFor(kind).success /\ AnswerFor(kind).error # None

\* C22 as stated: for a name that is not in the registry, analyze_table,
\* get_missing_value_report and get_numeric_summary raise (the worker answers
\* success=false), also for a name analyzed earlier and dropped since.
C22_UnknownTableRaises ==
    \A t \in AskedNames : t \notin DOMAIN Eng.tables => AnalysisRaises(t)

\* C22 amended: for a name that is not in the registry and has no entry in
\* the statistics cache, the three operations raise (the worker answers
\* success=false); analyze_table with force_refresh=true raises for every name
\* that is not in the registry, cached or not.
C22_UnknownUncachedTableRaises ==
    \A t \in AskedNames :
        t \notin DOMAIN Eng.tables =>
            /\ AnalyzeTable(t, TRUE, NoFaults, Eng).raised
            /\ AnalyzeTable(t, TRUE, NoFaults, Eng).exc = NoTableText
            /\ t \notin DOMAIN Eng.cache => AnalysisRaises(t)

\* C22 witness: data was loaded, never analyzed, and dropped, while the
\* connection is still open
C22_Witness ==
    /\ <<"data">> \in hist.dropped
    /\ <<"data">> \notin DOMAIN Eng.tables
    /\ <<"data">> \notin DOMAIN Eng.cache
    /\ Eng.conn
    /\ AnalysisRaises(<<"data">>)

\* the registry entry of name n, Absent when there is none
RegistryEntry(eng, n) == IF n \in DOMAIN eng.tables THEN Some(eng.tables[n]) ELSE Absent

\* the payloads of the analysis requests: a table and column that exist, ones
\* that do not
AnalysisPayloads == {GoodPayload, BadPayload}

\* execute_query, save_view, delete_view, export_to_csv, clear_cache and every
\* analysis operation return with the registry as it was; a load that raises
\* too; a load that returns adds one entry and touches no other; drop_table(t)
\* removes t's entry and touches no other
RegistryUntouched ==
    /\ \A sql \in Statements, page \in PageArgs :
         ExecuteQuery(sql, page[1], page[2], Eng).eng.tables = Eng.tables
    /\ \A v \in ViewNames, t \in AskedNames :
         /\ SaveView(v, Sql("SELECT", t), Eng).eng.tables = Eng.tables
         /\ DeleteView(v, Eng).eng.tables = Eng.tables
         /\ ExportToCsv(Sql("SELECT", t), Eng).eng.tables = Eng.tables
    /\ \A t \in AskedNames :
         /\ \A force \in BOOLEAN, faults \in SUBSET FaultPairs :
              AnalyzeTable(t, force, faults, Eng).eng.tables = Eng.tables
         /\ GetMissingValueReport(t, Eng).eng.tables = Eng.tables
         /\ GetNumericSummary(t, Eng).eng.tables = Eng.tables
         /\ \A c \in ColumnsOf \cup {"nocol"}, bins \in {0, 10, 20} :
              GetColumnDistribution(t, c, bins, Eng).eng.tables = Eng.tables
    /\ \A p \in AnalysisPayloads : AnalyzeColumn(p, Eng).eng.tables = Eng.tables
    /\ \A n \in ClearNames : ClearCache(n, Eng).tables = Eng.tables
    /\ \A path \in Files \cup LoadPaths, tn \in LoadNames \cup {"data"}, fault \in LoadFaults :
         LET out == LoadCsv(path, tn, fault, Eng)
         IN IF out.raised THEN out.eng.tables = Eng.tables
            ELSE /\ out.value.name \notin DOMAIN Eng.tables
                 /\ DOMAIN out.eng.tables = DOMAIN Eng.tables \cup {out.value.name}
                 /\ \A n \in DOMAIN Eng.tables : out.eng.tables[n] = Eng.tables[n]
    /\ \A t \in AskedNames :
         LET out == DropTable(t, Eng)
         IN /\ DOMAIN out.eng.tables \in {DOMAIN Eng.tables, DOMAIN Eng.tables \ {t}}
            /\ \A n \in DOMAIN out.eng.tables : out.eng.tables[n] = Eng.tables[n]

\* C29: a registry entry is created only by a load_csv that returns, removed
\* only by drop_table of its name, and never modified in between: every step
\* that changes an entry either adds it (a load) or removes it (a drop of that
\* name), and execute_query, save_view, delete_view, export_to_csv and the
\* analysis operations leave the names and every entry's row_count and column
\* list unchanged.
C29_RegistryImmutable ==
    /\ []RegistryUntouched
    /\ [][\A n \in AskedNames :
             RegistryEntry(Eng', n) # RegistryEntry(Eng, n) =>
                \/ /\ RegistryEntry(Eng, n) = Absent
                   /\ \E a \in CacheLoads : LoadCsvStep(a[1], a[2], "none")
                \/ /\ RegistryEntry(Eng', n) = Absent
                   /\ DropTableStep(n)]_vars

\* C29 witness: rows were inserted into data through execute_query and the
\* registry entry still holds the row count and columns taken by the load
C29_Witness ==
    /\ <<"data">> \in DOMAIN Eng.tables
    /\ <<"data">> \in DOMAIN Eng.catalog
    /\ Len(Eng.catalog[<<"data">>]) = MaxRows
    /\ Eng.tables[<<"data">>] = TableInfo(<<"data">>, "other.csv", 1, Columns)

\* drop_table(t): twice in a row is the same as once, and nothing but t goes
DropTableOnce(t) ==
    LET once == DropTable(t, Eng)
        twice == DropTable(t, once.eng)
    IN /\ twice.value = once.value
       /\ twice.eng = once.eng
       /\ once.eng.views = Eng.views
       /\ once.eng.cache = Eng.cache
       /\ \A n \in AskedNames \ {t} :
            /\ RegistryEntry(once.eng, n) = RegistryEntry(Eng, n)
            /\ (n \in DOMAIN once.eng.catalog) = (n \in DOMAIN Eng.catalog)
            /\ n \in DOMAIN Eng.catalog => once.eng.catalog[n] = Eng.catalog[n]

\* delete_view(v): twice in a row is the same as once, and nothing but v goes
DeleteViewOnce(v) ==
    LET once == DeleteView(v, Eng)
        twice == DeleteView(v, once.eng)
    IN /\ twice.value = once.value
       /\ twice.eng = once.eng
       /\ once.eng.views \in {Eng.views, Eng.views \ {v}}
       /\ [once.eng EXCEPT !.views = Eng.views] = Eng

\* the view names the properties ask about: the saved one, one never saved
AskedViews == ViewNames \cup {"w"}

\* no table of this name is registered or held by the engine
TableAbsent(t) == t \notin DOMAIN Eng.tables /\ t \notin DOMAIN Eng.catalog

\* C30 as stated: drop_table and delete_view on a name that is absent return
\* true and change nothing; twice in a row is the same as once; drop_table(t)
\* removes only t and delete_view(v) only v.
C30_DropDeleteIdempotent ==
    /\ \A t \in AskedNames :
         /\ DropTableOnce(t)
         /\ TableAbsent(t) =>
               DropTable(t, Eng).value = "True" /\ DropTable(t, Eng).eng = Eng
    /\ \A v \in AskedViews :
         /\ DeleteViewOnce(v)
         /\ v \notin Eng.views =>
               DeleteView(v, Eng).value = "True" /\ DeleteView(v, Eng).eng = Eng

\* C30 amended: the same while the connection is open; once it is closed both
\* return false, on absent and on present names, and change nothing.
C30_IdempotentWhileOpen ==
    /\ \A t \in AskedNames :
         /\ DropTableOnce(t)
         /\ (Eng.conn /\ TableAbsent(t)) =>
               DropTable(t, Eng).value = "True" /\ DropTable(t, Eng).eng = Eng
         /\ Eng.conn =>
               /\ DropTable(t, Eng).value = "True"
               /\ t \notin DOMAIN DropTable(t, Eng).eng.tables
               /\ t \notin DOMAIN DropTable(t, Eng).eng.catalog
         /\ ~Eng.conn =>
               DropTable(t, Eng).value = "False" /\ DropTable(t, Eng).eng = Eng
    /\ \A v \in AskedViews :
         /\ DeleteViewOnce(v)
         /\ Eng.conn =>
               /\ DeleteView(v, Eng).value = "True"
               /\ v \notin DeleteView(v, Eng).eng.views
               /\ v \notin Eng.views => DeleteView(v, Eng).eng = Eng
         /\ ~Eng.conn =>
               DeleteView(v, Eng).value = "False" /\ DeleteView(v, Eng).eng = Eng

\* C30 witness: two tables and a view exist on an open connection; dropping
\* data leaves data_1 and the view, and dropping a name that is absent
\* returns true
C30_Witness ==
    /\ Eng.conn
    /\ DOMAIN Eng.tables = {<<"data">>, <<"data", 1>>}
    /\ Eng.views = {"v"}
    /\ DOMAIN DropTable(<<"data">>, Eng).eng.tables = {<<"data", 1>>}
    /\ DropTable(<<"ghost">>, Eng).value = "True"
    /\ DeleteView("w", Eng).value = "True"

(* ------------------------------------------------------------------ *)
(* Properties of the statistics (StatsSpec)                           *)
(* ------------------------------------------------------------------ *)

\* the base counts of a ColumnStats
BaseCounts(cs) ==
    <<cs.name, cs.dtype, cs.total_count, cs.null_count, cs.null_percentage,
      cs.unique_count, cs.unique_percentage>>

\* the fields of a ColumnStats that one statistic group fills
GroupFields(cs, g) ==
    CASE g = "numeric" -> <<cs.min_value, cs.max_value, cs.std_value>>
      [] g = "string" -> <<cs.min_length, cs.max_length>>
      [] OTHER -> <<cs.top_values>>

\* the same fields when the group is absent: all None
GroupAbsent(g) ==
    CASE g = "numeric" -> <<Absent, Absent, Absent>>
      [] g = "string" -> <<Absent, Absent>>
      [] OTHER -> <<Absent>>

\* C23: when the numeric, string or top-values query of a column fails, only
\* that group is absent from that column: analyze_table does not raise, it
\* returns and caches a TableStats with one ColumnStats per column, whose base
\* counts and whose other groups are what an analysis without failure reports,
\* for that column and for every other one.
C23_FailedGroupOnlyAbsent ==
    \A faults \in SUBSET FaultPairs :
        LET out == AnalyzeTable(<<"data">>, TRUE, faults, Eng)
            clean == AnalyzeTable(<<"data">>, TRUE, NoFaults, Eng)
            cols == Eng.tables[<<"data">>].columns
        IN /\ ~out.raised /\ ~clean.raised
           /\ out.eng.cache[<<"data">>] = out.value
           /\ out.value.row_count = clean.value.row_count
           /\ out.value.column_count = Len(cols)
           /\ Len(out.value.columns) = Len(cols)
           /\ \A i \in 1..Len(cols) :
                LET cs == out.value.columns[i]
                    ref == clean.value.columns[i]
                IN /\ cs.name = cols[i].name
                   /\ BaseCounts(cs) = BaseCounts(ref)
                   /\ \A g \in StatGroups :
                        GroupFields(cs, g) =
                            IF <<cs.name, g>> \in faults THEN GroupAbsent(g)
                            ELSE GroupFields(ref, g)

\* C23 witness: the cached analysis of a table with values in x lacks x's
\* numeric group and s's top values, and holds x's top values and s's lengths
C23_Witness ==
    /\ <<"data">> \in DOMAIN Eng.cache
    /\ Len(Eng.cache[<<"data">>].columns) = 2
    /\ LET x == Eng.cache[<<"data">>].columns[1]
           sc == Eng.cache[<<"data">>].columns[2]
       IN /\ x.unique_count >= 2
          /\ x.min_value = Absent
          /\ x.top_values # Absent
          /\ sc.top_values = Absent
          /\ sc.min_length = Some(1)

\* C24: for every column, a table of zero rows reports 0 for the null and the
\* unique percentage and nothing raises; a table with rows reports
\* null_count = total_count - non_null_count and both percentages between 0
\* and 100 (0 and 10000 hundredths).
C24_PercentagesGuarded ==
    LET out == AnalyzeTable(<<"data">>, TRUE, NoFaults, Eng)
        rows == Eng.catalog[<<"data">>]
    IN /\ ~out.raised
       /\ \A i \in 1..Len(out.value.columns) :
            LET cs == out.value.columns[i]
                non_null == Len(NonNullCells(CellsOf(rows, cs.name)))
            IN /\ cs.total_count = Len(rows)
               /\ cs.total_count = 0 =>
                     cs.null_percentage = 0 /\ cs.unique_percentage = 0
               /\ cs.total_count > 0 =>
                     /\ cs.null_count = cs.total_count - non_null
                     /\ cs.null_percentage \in 0..10000
                     /\ cs.unique_percentage \in 0..10000
                     /\ cs.null_count = cs.total_count => cs.null_percentage = 10000
                     /\ cs.null_count = 0 => cs.null_percentage = 0

\* C24 witness: a table of zero rows was analyzed
C24_Witness ==
    /\ Eng.catalog[<<"data">>] = <<>>
    /\ <<"data">> \in DOMAIN Eng.cache
    /\ Eng.cache[<<"data">>].columns[1].total_count = 0
    /\ Eng.cache[<<"data">>].columns[1].unique_percentage = 0

\* the histogram entries get_column_distribution reports for the column x
HistogramOf(bins) ==
    LET r == GetColumnDistribution(<<"data">>, "x", bins, Eng).value
    IN IF r.histogram = Absent THEN {} ELSE r.histogram[1].data

\* C25: for bins = B >= 1 and a column with at least two distinct non-null
\* values, every bucket index of the histogram lies in 0..B-1, the bucket of
\* the column's maximum included.
C25_BucketsInRange ==
    \A bins \in Bins \ {0} :
        Cardinality(DistinctValues(CellsOf(Eng.catalog[<<"data">>], "x"))) >= 2 =>
            \A e \in HistogramOf(bins) : e.bin \in 0..(bins - 1)

RECURSIVE SumCounts(_)
\* the sum of the counts of a set of histogram entries
SumCounts(S) ==
    IF S = {} THEN 0
    ELSE LET e == CHOOSE x \in S : TRUE IN e.count + SumCounts(S \ {e})

Executing == {t \in Users : thr[t].pc = "executing"}

\* C27: at most one thread at a time executes a statement on the engine
\* connection, whatever engine and analyzer methods the threads call.
C27_OneStatementAtATime == Cardinality(Executing) <= 1

(* ------------------------------------------------------------------ *)
(* Properties of a response that arrives during the wait (CallSpec)   *)
(* ------------------------------------------------------------------ *)

\* the call of thread c is registered in the pending map
Registered(c) == calls[c].id \in cl.pending_requests

\* the listener stores the response of the call of thread c while the call
\* is in its wait
StoresDuringWait(c) ==
    /\ calls[c].pc = "wait"
    /\ ls[1].pc = "got"
    /\ ls[1].resp.request_id = calls[c].id
    /\ ls'[1].pc # "got"

\* the call of thread c leaves its wait with its event set
WakesUp(c) ==
    /\ calls[c].pc = "wait"
    /\ calls[c].id \in events
    /\ calls'[c].pc # "wait"

\* C28: a call is registered in the pending map from before its request is
\* enqueued until it leaves its wait; a response that reaches the listener
\* while its call is waiting is stored and then signalled, so while a waiting
\* call's event is set its response is stored; and the call that wakes up
\* returns that stored response, neither a timeout nor nothing.
C28_ResponseDuringWaitNotMissed ==
    /\ [](\A c \in Users :
            /\ calls[c].pc \in {"put", "wait"} => Registered(c)
            /\ calls[c].pc = "wait" /\ calls[c].id \in events =>
                  /\ LookupResponse(cl.responses, calls[c].id) # NoResp
                  /\ LookupResponse(cl.responses, calls[c].id).request_id = calls[c].id)
    /\ [][\A c \in Users :
            /\ StoresDuringWait(c) =>
                  /\ Registered(c)
                  /\ LookupResponse(cl'.responses, calls[c].id) = ls[1].resp
                  /\ calls[c].id \in events'
            /\ WakesUp(c) =>
                  /\ calls'[c].pc = "done"
                  /\ calls'[c].result = LookupResponse(cl.responses, calls[c].id)
                  /\ calls'[c].result.request_id = calls[c].id
                  /\ calls'[c].result # TimeoutResponse(calls[c].id)
                  /\ calls'[c].result # NoResp]_vars

\* C28 witness: a call returned the worker's response, which the listener had
\* stored while the other thread's call was waiting too
C28_Witness ==
    /\ calls["t1"].pc = "done"
    /\ calls["t1"].result.success
    /\ calls["t1"].result.request_id = calls["t1"].id
    /\ calls["t2"].pc = "wait"
    /\ calls["t2"].id \in events
    /\ LookupResponse(cl.responses, calls["t2"].id) # NoResp

(* ------------------------------------------------------------------ *)
(* Properties of the worker's answers (WorkerSpec)                    *)
(* ------------------------------------------------------------------ *)

\* the worker has handled a request of this kind, whose payload holds every
\* required key, and is about to put the Response
Handled(kind) ==
    /\ wk[1].pc = "put"
    /\ wk[1].msg.type = kind
    /\ FirstMissing(kind, wk[1].msg.payload) = NoKey

\* the payload's table or column is not in the registry
Unresolved(p) ==
    \/ ParseName(p["table_name"]) \notin DOMAIN Eng.tables
    \/ p["column_name"] \notin ColumnsOf

\* C31: a get_column_distribution request whose table or column name cannot
\* be resolved is answered with success=false and a non-empty error, as an
\* analyze_column request for the same names is.
C31_UnknownNamesFailDistribution ==
    /\ Handled("analyze_column") /\ Unresolved(wk[1].msg.payload) =>
          ~wk[1].resp.success /\ wk[1].resp.error # None
    /\ Handled("get_column_distribution") /\ Unresolved(wk[1].msg.payload) =>
          ~wk[1].resp.success /\ wk[1].resp.error # None

(* ------------------------------------------------------------------ *)
(* Properties of the reports over a changing table (EngineSpec)       *)
(* ------------------------------------------------------------------ *)

\* the number of NULLs the table t holds now, over all its columns
NullCells(t) ==
    Cardinality({<<i, c>> \in (1..Len(Eng.catalog[t])) \X ColumnsOf :
                    CellsOf(Eng.catalog[t], c)[i] = Absent})

\* C32: in every missing-value report, also of a table whose rows were
\* changed through execute_query after the load, total_cells is the table's
\* rows times its columns, total_missing is the sum of the columns' null
\* counts, total_missing <= total_cells, and missing_percentage lies between
\* 0 and 100 and is 0 when there are no cells.
C32_MissingReportConsistent ==
    \A t \in OpNames :
        LET out == GetMissingValueReport(t, Eng)
            r == out.value
        IN (~out.raised /\ t \in DOMAIN Eng.catalog) =>
              /\ r.total_cells = Len(Eng.catalog[t]) * Len(Columns)
              /\ r.total_missing = NullCells(t)
              /\ r.total_missing <= r.total_cells
              /\ r.missing_percentage \in 0..10000
              /\ r.total_cells = 0 => r.missing_percentage = 0

(* ------------------------------------------------------------------ *)
(* Properties of a column of equal values (StatsSpec)                 *)
(* ------------------------------------------------------------------ *)

ValuesOfX ==
    LET cells == NonNullCells(CellsOf(Eng.catalog[<<"data">>], "x"))
    IN [i \in 1..Len(cells) |-> cells[i][1]]

\* n * SUM(v^2) - SUM(v)^2 over the values of x, which is n^2 times their
\* population variance
ScaledSquares ==
    LET n == Len(ValuesOfX)
    IN n * SumOver([i \in 1..n |-> ValuesOfX[i] * ValuesOfX[i]], 1..n)
          - SumOver(ValuesOfX, 1..n) * SumOver(ValuesOfX, 1..n)

\* C34: the standard deviation reported for a numeric column is the
\* population standard deviation of its non-null values (its square is
\* SUM((v - mean)^2) / n), and a column with exactly one non-null value
\* reports 0, not an absent value.
C34_PopulationStdDev ==
    LET out == AnalyzeTable(<<"data">>, TRUE, NoFaults, Eng)
        std == out.value.columns[1].std_value
        n == Len(ValuesOfX)
    IN n >= 1 =>
          /\ std # Absent
          /\ std[1].num * n * n = ScaledSquares * std[1].den
          /\ n = 1 => std[1].num = 0

(* ------------------------------------------------------------------ *)
(* Properties of the registry against the engine (EngineSpec)         *)
(* ------------------------------------------------------------------ *)

\* C35: after any sequence of load_csv, drop_table and execute_query, every
\* name get_tables() lists is a table of the engine, every table of the
\* engine is listed, and so a load of a file that exists never fails on a
\* name that is taken in the engine.
C35_RegistryMatchesCatalog ==
    /\ GetTables(Eng) \subseteq DOMAIN Eng.catalog
    /\ DOMAIN Eng.catalog \subseteq GetTables(Eng)
    /\ \A n \in LoadNames : LoadCsv("data.csv", n, "none", Eng).exc # CatalogExistsText

(* ------------------------------------------------------------------ *)
(* Properties of a raising analyze_table (ConnSpec)                   *)
(* ------------------------------------------------------------------ *)

\* C36: when analyze_table raises during a computation (the table is not
\* in the registry, or a statement of a column fails), the analyzer's lock
\* is left and the cache is as it was: no entry is added for the table and
\* an entry it had under force_refresh is retained
C36_RaisingAnalyzeKeepsCache ==
    [][\A t \in Users :
          (/\ thr[t].op \in ReportOps
           /\ thr[t].pc # "idle"
           /\ thr'[t].pc = "idle"
           /\ thr'[t].ret = "raised")
             => /\ Eng'.cache = Eng.cache
                /\ ~AnalyzerLocked']_vars

\* a forced analyze_table has raised, the entry cached before it is still
\* there and the lock is free
C36_Witness ==
    \E t \in Users :
        /\ thr[t].pc = "idle"
        /\ thr[t].op = "analyze_table"
        /\ thr[t].ret = "raised"
        /\ <<"data">> \in DOMAIN Eng.cache
        /\ ~AnalyzerLocked

(* ------------------------------------------------------------------ *)
(* Properties of the two locks (ConnSpec)                             *)
(* ------------------------------------------------------------------ *)

\* the thread is at a get_table_info or at the "with self._lock" of an
\* engine method, and the engine's lock is held
WaitsForEngine(t) ==
    /\ Eng.lock
    /\ \/ thr[t].pc = "called"
          /\ thr[t].op \in EngineOps \cup {"analyze_column", "get_column_distribution"}
       \/ /\ thr[t].pc = "alocked"
          /\ thr[t].op \in ReportOps
          /\ thr[t].op = "analyze_table" \/ <<"data">> \notin DOMAIN Eng.cache
       \/ thr[t].pc = "estimate"

\* the thread is at the "with self._lock" of analyze_table or clear_cache,
\* and the analyzer's lock is held
WaitsForAnalyzer(t) ==
    /\ AnalyzerLocked
    /\ thr[t].pc = "called"
    /\ thr[t].op \in ReportOps \cup {"clear_cache"}

\* the thread is inside the "with" of the engine's lock or of the analyzer's
HoldsLock(t) ==
    \/ thr[t].op \in EngineOps /\ thr[t].pc \in {"executing", "locked"}
    \/ /\ thr[t].op \in ReportOps \cup {"clear_cache"}
       /\ thr[t].pc \in {"alocked", "ready", "executing", "estimate"}

\* C37: no interleaving of engine and analyzer calls deadlocks: a thread
\* that waits for a lock waits for another thread, which holds it and waits
\* for none; no method waits for a lock it holds itself, and no holder of a
\* lock waits for the analyzer's
C37_NoDeadlock ==
    \A t \in Users :
        /\ ~(HoldsLock(t) /\ WaitsForAnalyzer(t))
        /\ (WaitsForEngine(t) \/ WaitsForAnalyzer(t)) =>
              \E u \in Users \ {t} :
                  HoldsLock(u) /\ ~WaitsForEngine(u) /\ ~WaitsForAnalyzer(u)

\* a report holds the analyzer's lock and waits for the engine's, which
\* get_table_data holds inside its execute_query
C37_Witness ==
    \E t \in Users, u \in Users :
        /\ thr[t].op = "get_missing_value_report"
        /\ thr[t].pc \in {"alocked", "estimate"}
        /\ thr[u].op = "get_table_data"
        /\ thr[u].pc = "executing"
        /\ WaitsForEngine(t)

(* ------------------------------------------------------------------ *)
(* Properties of stop()'s own shutdown call (StopSpec)                *)
(* ------------------------------------------------------------------ *)

\* stop() is inside its send_message(SHUTDOWN, {}) on a client that sent
\* nothing else, and the event of that call is not set yet
ShutdownCallOpen ==
    /\ mainpc = "stop_send"
    /\ generated = <<calls["main"].id>>
    /\ calls["main"].pc \in {"put", "wait"}
    /\ calls["main"].id \notin events

\* C38: stop() on a started client with an idle worker: the listener is
\* still reading when the worker's Response to the shutdown request comes,
\* so the listener does not end before that Response is handed to stop()'s
\* call
C38_ListenerOutlivesShutdownCall ==
    ShutdownCallOpen => ls[1].pc # "exited"

(* ------------------------------------------------------------------ *)
(* Properties of the worker's query answers (WorkerSpec)              *)
(* ------------------------------------------------------------------ *)

\* C39: an execute_query or get_table_data request with a well-formed
\* payload is answered with success=true and no error in the Response; a
\* failing statement shows only in the error field of the Response's data,
\* with empty columns and data.
C39_QueryErrorsInsidePayload ==
    \A kind \in {"execute_query", "get_table_data"} :
        Handled(kind) =>
            /\ wk[1].resp.success
            /\ wk[1].resp.error = None
            /\ wk[1].resp.data.error # None =>
                  wk[1].resp.data.columns = <<>> /\ wk[1].resp.data.data = <<>>
            /\ (\/ ~Eng.conn
                \/ /\ kind = "get_table_data"
                   /\ ParseName(wk[1].msg.payload["table_name"]) \notin DOMAIN Eng.catalog)
                 => wk[1].resp.data.error # None

\* the worker answers a get_table_data on a table that does not exist
C39_Witness ==
    /\ Handled("get_table_data")
    /\ ParseName(wk[1].msg.payload["table_name"]) \notin DOMAIN Eng.catalog
    /\ wk[1].resp.success
    /\ wk[1].resp.data.error # None
    /\ wk[1].resp.data.columns = <<>>

====
